---- MODULE Spec2Model ----
(***************************************************************************)
(* Verification model of the Intelligent Query Retrieval System.           *)
(*                                                                         *)
(*   Spec          the /hackrx/run request handler (process_queries,       *)
(*                 process_single_question, perform_fast_analysis)         *)
(*   SpecValidate  the same handler on requests of up to                   *)
(*                 MaxRequestQuestions questions with a healthy            *)
(*                 environment (request validation)                        *)
(*   SpecDecision  DecisionEngine.analyze_complex_query                    *)
(*                                                                         *)
(* Numbers with a fractional part (confidence values) are fixed-point      *)
(* integers in hundredths: 70 stands for 0.7.                              *)
(***************************************************************************)
EXTENDS Integers, Sequences, FiniteSets, TLC

(***************************************************************************)
(* Bounds of the model.                                                    *)
(***************************************************************************)
\* largest question list of a request in Spec
MaxQuestions == 2
\* largest question list of a request in SpecValidate
MaxRequestQuestions == 12
\* largest number of chunks a document yields
MaxChunks == 4
\* largest number of sub-questions a decomposition reply carries
MaxSubQuestions == 2
\* largest number of runs of equal characters in a text given to the chunker
MaxRuns == 5
\* largest number of results a vector search gives the hybrid scoring
MaxResults == 3
\* largest number of chunks given to rerank_chunks
MaxCandidates == 7
\* longest ranking the client returns for a rerank
MaxRanking == 3
\* most chunks of one store_document_chunks call
MaxStored == 2
\* most store_document_chunks calls on one index
MaxStoreCalls == 3
\* the initializers that can run VectorStore.initialize at the same time
MaxInitializers == 2
\* most chunks above max_chunks given to store_document_chunks
MaxExtraChunks == 2
\* longest pattern of chunk kinds a document repeats
MaxPattern == 2
\* most words of a free-text reply to the fast analysis
MaxReplyWords == 3

(***************************************************************************)
(* Program constants.                                                      *)
(***************************************************************************)
\* the literal of validate_questions_length
QuestionLimit == 10
\* the literal of validate_question_content
QuestionMaxLen == 500
\* Settings.rerank_top_k
rerank_top_k == 3
\* Settings.max_retrieval_results
max_retrieval_results == 10
\* fixed-point scale: 100 stands for 1.0
Scale == 100
\* Settings.max_chunk_size
max_chunk_size == 1024
\* Settings.max_document_size_mb
max_document_size_mb == 50
\* max_chunks of store_document_chunks
max_chunks == 50
\* top_k of the query delete_document makes
delete_top_k == 10000
\* min_chunk_size of _split_text_into_chunks
min_chunk_size == 200
\* overlap_size of _split_text_into_chunks
overlap_size == 150

(***************************************************************************)
(* JSON values.  A dict is a function from its keys; a scalar whose type   *)
(* the program does not control is tagged with its type.                   *)
(***************************************************************************)
Num(n) == [t |-> "num", v |-> n]
Str(s) == [t |-> "str", v |-> s]
Bool(b) == [t |-> "bool", v |-> b]
List(s) == [t |-> "list", v |-> s]
Obj(d) == [t |-> "obj", v |-> d]
Null == [t |-> "null"]
\* an f-string: the text with one number formatted into it
FStr(f, n) == [t |-> "fstr", fmt |-> f, n |-> n]

\* dict.get(key, default)
Get(d, k, default) == IF k \in DOMAIN d THEN d[k] ELSE default

\* d with d[k] = v added or replaced
Put(d, k, v) == [x \in (DOMAIN d) \cup {k} |-> IF x = k THEN v ELSE d[x]]

\* Python truthiness of a JSON value
Truthy(x) ==
    CASE x.t = "null" -> FALSE
      [] x.t = "bool" -> x.v
      [] x.t = "num" -> x.v # 0
      [] x.t = "str" -> x.v # ""
      [] x.t = "fstr" -> TRUE
      [] x.t = "list" -> x.v # <<>>
      [] x.t = "obj" -> DOMAIN x.v # {}

(***************************************************************************)
(* State.                                                                  *)
(***************************************************************************)
VARIABLES
    \* ---- the /hackrx/run handler ----
    pc,                        \* the await the handler is at
    max_questions_per_request, \* Settings.max_questions_per_request
    documents,                 \* request.documents
    questions,                 \* request.questions
    document_chunks,           \* number of chunks of the document (-1: none yet)
    index,                     \* the vectors in the remote index
    qi,                        \* position of the question being processed
    relevant_chunks,           \* relevant_chunks of process_single_question
    answers,                   \* answers of process_queries
    successful_responses,      \* successful_responses of process_queries
    response,                  \* the HTTP response, once sent
    inputs,                    \* what the services replied, per question
    events,                    \* calls made while processing questions
    client_calls,              \* Gemini calls made (generation and embedding)
    downloads,                 \* document downloads made
    \* ---- DecisionEngine.analyze_complex_query ----
    de_pc,            \* stage about to run, "done" or "raised"
    de_query,         \* the query under analysis
    sub_questions,    \* result of _decompose_query, as the loop iterates it
    sub_analyses,     \* results of _analyze_sub_question, in order
    final_analysis,   \* result of _synthesize_analysis
    de_result,        \* value returned by analyze_complex_query
    de_calls,         \* generate_content calls made so far, in order
    de_failed,        \* stages whose reply was non-JSON or an exception
    de_illtyped,      \* some reply parsed to JSON of an unexpected type
    \* ---- DocumentProcessor._split_text_into_chunks ----
    ck_pc,            \* statement the chunker is at
    ck_text,             \* the text to split
    paragraphs,       \* the paragraphs the loop has still to visit
    current_chunk,    \* the running buffer
    chunk_index,      \* index of the next chunk
    ck_chunks,           \* the chunks made so far
    \* ---- a function of the services applied to drawn arguments ----
    fn_pc,            \* "call" before the function is applied, "returned" after
    fn_args,          \* its arguments
    fn_result,        \* its result
    \* ---- VectorStore over several requests ----
    md5,              \* hashlib.md5(...).hexdigest()[:16] of each content
    store_calls,      \* the store_document_chunks calls made, with their vector ids
    \* ---- VectorStore.initialize by several initializers ----
    initializers,     \* each initializer's position and local variables
    pinecone_indexes  \* the names of the indexes that exist at Pinecone

api_vars == <<pc, max_questions_per_request, documents, questions, document_chunks,
              index, qi, relevant_chunks, answers, successful_responses, response,
              inputs, events, client_calls, downloads>>

de_vars == <<de_pc, de_query, sub_questions, sub_analyses, final_analysis,
             de_result, de_calls, de_failed, de_illtyped>>

ck_vars == <<ck_pc, ck_text, paragraphs, current_chunk, chunk_index, ck_chunks>>

fn_vars == <<fn_pc, fn_args, fn_result>>

vs_vars == <<md5, store_calls>>

ei_vars == <<initializers, pinecone_indexes>>

\* the variables of a request other than the index
request_vars == <<pc, max_questions_per_request, documents, questions, document_chunks,
                  qi, relevant_chunks, answers, successful_responses, response,
                  inputs, events, client_calls, downloads>>

\* the chunker before _split_text_into_chunks is called
ChunkerIdle ==
    /\ ck_pc = "idle"
    /\ ck_text = <<>>
    /\ paragraphs = <<>>
    /\ current_chunk = <<>>
    /\ chunk_index = 0
    /\ ck_chunks = <<>>

\* no initialization is followed
EnsureIdle ==
    /\ initializers = <<>>
    /\ pinecone_indexes = {}

\* no store_document_chunks call is followed
StoreIdle ==
    /\ md5 = <<>>
    /\ store_calls = <<>>

\* no function under study is being applied
FunctionIdle ==
    /\ fn_pc = "idle"
    /\ fn_args = <<>>
    /\ fn_result = <<>>

vars == <<pc, max_questions_per_request, documents, questions, document_chunks,
          index, qi, relevant_chunks, answers, successful_responses, response,
          inputs, events, client_calls, downloads,
          de_pc, de_query, sub_questions, sub_analyses, final_analysis,
          de_result, de_calls, de_failed, de_illtyped,
          ck_pc, ck_text, paragraphs, current_chunk, chunk_index, ck_chunks,
          fn_pc, fn_args, fn_result,
          md5, store_calls,
          initializers, pinecone_indexes>>

\* no value (Python None for a local that is not set yet)
None == [t |-> "none"]

(***************************************************************************)
(* Replies of GeminiClient.generate_content: the call raises, or returns   *)
(* a string that json.loads rejects, or returns a string that parses to    *)
(* the value carried.                                                      *)
(***************************************************************************)
Raises == [kind |-> "raise"]
Text(w) == [kind |-> "text", words |-> w]
NonJson == Text(<<"sorry", "no", "json">>)
Json(v) == [kind |-> "json", value |-> v]

(***************************************************************************)
(* How a call completes: it returns a value or an exception escapes it.    *)
(***************************************************************************)
Return(v) == [raised |-> FALSE, value |-> v]
Raise(e) == [raised |-> TRUE, exc |-> e]

\* sequences over S of length at most n
SeqUpTo(S, n) == UNION {[1..k -> S] : k \in 0..n}

\* sum of a sequence of integers
RECURSIVE SumSeq(_)
SumSeq(s) == IF s = <<>> THEN 0 ELSE Head(s) + SumSeq(Tail(s))

Min(a, b) == IF a < b THEN a ELSE b

\* s[:n]
Take(s, n) == SubSeq(s, 1, Min(Len(s), n))

\* the items of a sequence
Range(s) == {s[i] : i \in 1..Len(s)}

(***************************************************************************)
(* QueryRequest (api/models/request.py)                                    *)
(***************************************************************************)
\* question texts: two proper ones, a whitespace-only one, an overlong one
QuestionTexts == {"knee", "maternity", " ", "LONG"}

\* len(question)
QuestionLen(q) == CASE q = "LONG" -> 501 [] q = " " -> 1 [] OTHER -> 36

\* question.strip()
Strip(q) == IF q = " " THEN "" ELSE q

\* min_items=1, validate_questions_length and validate_question_content
RequestValid(qs) ==
    /\ Len(qs) >= 1
    /\ ~(Len(qs) > QuestionLimit)
    /\ \A i \in 1..Len(qs) : Strip(qs[i]) # "" /\ ~(QuestionLen(qs[i]) > QuestionMaxLen)

(***************************************************************************)
(* Vector index                                                            *)
(***************************************************************************)
\* document_id of process_queries
DocumentId(url) == <<"doc_", url>>

\* the vectors store_document_chunks builds for n chunks
VectorsOf(doc_id, n) ==
    {[id |-> <<doc_id, i>>, document_id |-> doc_id, chunk_index |-> i] : i \in 0..(n - 1)}

\* index.upsert: a vector replaces the one of the same id
Upsert(idx, vectors) ==
    {v \in idx : \A w \in vectors : w.id # v.id} \cup vectors

\* the vectors a search filtered by document_id can match
StoredFor(idx, doc_id) == {v \in idx : v.document_id = doc_id}

(***************************************************************************)
(* RetrievalEngine                                                         *)
(***************************************************************************)
\* what retrieve_relevant_chunks can get from the vector search: -1 when
\* the search raises, else the number of matches (at most top_k and at most
\* the vectors stored for the document)
RetrievalOutcomes(idx, doc_id) ==
    {-1} \cup (0..Min(max_retrieval_results, Cardinality(StoredFor(idx, doc_id))))

\* retrieve_relevant_chunks: the matches in hybrid-score order, named by
\* their place in that order; [] when the search raised
RetrieveResult(outcome) ==
    IF outcome = -1 THEN <<>> ELSE [i \in 1..outcome |-> i]

\* replies the client gives to the rerank prompt
RerankReplies == {Raises, NonJson, Json(List(<<4, 2>>))}

\* the chunks the ranking names, in ranking order (numbers out of range
\* are skipped)
RECURSIVE Ranked(_, _)
Ranked(top, ranking) ==
    IF ranking = <<>> THEN <<>>
    ELSE (IF 1 <= Head(ranking) /\ Head(ranking) <= Len(top)
          THEN <<top[Head(ranking)]>> ELSE <<>>) \o Ranked(top, Tail(ranking))

\* a rerank that forgets the chunks the ranking does not name
UnrankedDropped(top, ranking, i) == <<>>

\* the chunks the ranking does not name, in their order
RECURSIVE Unranked(_, _, _)
Unranked(top, ranking, i) ==
    IF i > Len(top) THEN <<>>
    ELSE (IF i \notin Range(ranking) THEN <<top[i]>> ELSE <<>>)
         \o Unranked(top, ranking, i + 1)

\* rerank_chunks
RerankResult(chunks, reply) ==
    LET top == Take(chunks, rerank_top_k * 2)
    IN  CASE reply.kind = "raise" -> Take(chunks, rerank_top_k)
          [] reply.kind = "text" -> Take(top, rerank_top_k)
          [] reply.kind = "json" ->
                IF reply.value.t = "list"
                THEN Take(Ranked(top, reply.value.v) \o Unranked(top, reply.value.v, 1),
                          rerank_top_k)
                ELSE Take(chunks, rerank_top_k)

\* the ranked chunks from position k of the ranking on, each with its
\* llm_rank and its llm_score 1.0 - rank_idx / len(ranking) as a fraction
RECURSIVE RankedFrom(_, _, _)
RankedFrom(top, ranking, k) ==
    IF k > Len(ranking) THEN <<>>
    ELSE (IF 1 <= ranking[k] /\ ranking[k] <= Len(top)
          THEN <<[chunk |-> top[ranking[k]],
                  llm_rank |-> k,
                  llm_score |-> [num |-> Len(ranking) - (k - 1), den |-> Len(ranking)]]>>
          ELSE <<>>) \o RankedFrom(top, ranking, k + 1)

\* the chunks the ranking does not name, with llm_score 0.0
UnrankedScored(top, ranking) ==
    LET rest == Unranked(top, ranking, 1)
    IN  [i \in 1..Len(rest) |->
            [chunk |-> rest[i],
             llm_rank |-> Len(ranking) + 1,
             llm_score |-> [num |-> 0, den |-> 1]]]

\* chunks returned as they were given
Unscored(chunks) == [i \in 1..Len(chunks) |-> [chunk |-> chunks[i]]]

\* rerank_chunks, with the fields it adds to the chunks
RerankChunksResult(chunks, reply) ==
    LET top == Take(chunks, rerank_top_k * 2)
    IN  IF chunks = <<>> THEN <<>>
        ELSE CASE reply.kind = "raise" -> Unscored(Take(chunks, rerank_top_k))
               [] reply.kind = "text" -> Unscored(Take(top, rerank_top_k))
               [] reply.kind = "json" ->
                     IF reply.value.t = "list"
                     THEN Take(RankedFrom(top, reply.value.v, 1)
                               \o UnrankedScored(top, reply.value.v), rerank_top_k)
                     ELSE Unscored(Take(chunks, rerank_top_k))

\* the replies of the client to a rerank prompt: failures, JSON that is no
\* array, and rankings with numbers in and out of range
RerankCallReplies ==
    {Raises, NonJson, Json(Num(1))}
    \cup {Json(List(r)) : r \in SeqUpTo(0..MaxCandidates, MaxRanking)}

(***************************************************************************)
(* perform_fast_analysis and the QueryAnswer (api/routes/hackrx.py)        *)
(***************************************************************************)
\* replies the client gives to the fast-analysis prompt
FastReplies ==
    {Raises,
     Text(<<"yes", "this", "is", "covered">>),
     Json(List(<<"covered">>)),
     Json(Obj([rationale |-> Str("Knee surgery is mentioned")])),
     Json(Obj([isCovered |-> Bool(TRUE),
               conditions |-> List(<<"24-month waiting period">>),
               rationale |-> Str("Covered after the waiting period"),
               confidence_score |-> Num(90),
               clause_reference |-> Obj([page |-> Num(1),
                                         clause_title |-> Str("Surgical procedures")])])),
     Json(Obj([isCovered |-> Bool(FALSE),
               conditions |-> List(<<>>),
               limitations |-> List(<<"excluded">>),
               rationale |-> Str("Excluded"),
               confidence_score |-> Num(40),
               clause_reference |-> Obj([page |-> Null, clause_title |-> Null]),
               evidence_strength |-> Str("weak"),
               contradictions |-> List(<<"stated twice">>)])),
     Json(Obj([isCovered |-> Bool(TRUE),
               rationale |-> Str("Surely covered"),
               confidence_score |-> Num(150)]))}

\* the keyword w is a substring of the word of the reply
Within(w, word) ==
    \/ word = w
    \/ <<w, word>> \in {<<"covered", "uncovered">>, <<"yes", "yesterday">>}

\* word in response_lower, for a one-word keyword
HasWord(words, w) == \E i \in 1..Len(words) : Within(w, words[i])

\* phrase in response_lower, for a keyword of two words
HasPhrase(words, first, second) ==
    \E i \in 1..(Len(words) - 1) : words[i] = first /\ words[i + 1] = second

\* the result of perform_fast_analysis when anything but the JSON parse
\* raises
AnalysisError ==
    [isCovered |-> Bool(FALSE),
     conditions |-> List(<<>>),
     rationale |-> Str("Analysis error"),
     confidence_score |-> Num(0),
     clause_reference |-> Obj([page |-> Null, clause_title |-> Null])]

\* the required fields perform_fast_analysis adds to a parsed dict
WithDefaults(d) ==
    LET d1 == IF "isCovered" \in DOMAIN d THEN d ELSE Put(d, "isCovered", Bool(FALSE))
        d2 == IF "conditions" \in DOMAIN d1 THEN d1 ELSE Put(d1, "conditions", List(<<>>))
        d3 == IF "rationale" \in DOMAIN d2 THEN d2
              ELSE Put(d2, "rationale", Str("Analysis completed based on document content"))
        d4 == IF "confidence_score" \in DOMAIN d3 THEN d3
              ELSE Put(d3, "confidence_score", Num(80))
    IN  IF "clause_reference" \in DOMAIN d4 THEN d4
        ELSE Put(d4, "clause_reference",
                 Obj([page |-> Num(1), clause_title |-> Str("Document")]))

\* perform_fast_analysis: the evaluation dict for the reply
PerformFastAnalysisResult(question, chunks, reply) ==
    CASE reply.kind = "raise" -> AnalysisError
      [] reply.kind = "text" ->
            [isCovered |-> Bool(\E w \in {"yes", "covered", "included", "available"} :
                                   HasWord(reply.words, w)),
             conditions |-> List(<<"See document for specific conditions">>),
             rationale |-> Str("Based on document analysis"),
             confidence_score |-> Num(70),
             clause_reference |-> Obj([page |-> Num(1), clause_title |-> Str("Document")])]
      [] reply.kind = "json" ->
            IF reply.value.t = "obj" THEN WithDefaults(reply.value.v) ELSE AnalysisError

\* the rationale with the tags process_single_question adds to it
RationaleOf(e) ==
    <<e["rationale"].v>>
    \o (IF Truthy(Get(e, "evidence_strength", Null))
        THEN <<"[Evidence]", e["evidence_strength"].v>> ELSE <<>>)
    \o (IF Truthy(Get(e, "completeness", Null))
        THEN <<"[Completeness]", e["completeness"].v>> ELSE <<>>)
    \o (IF Truthy(Get(e, "contradictions", Null))
        THEN <<"[Contradictions found]">> ELSE <<>>)

\* ProcessingMetadata of an answer
Metadata(analyzed, tokens) ==
    [model_used |-> "gemini-2.0-flash", embedding_model |-> "text-embedding-004",
     chunks_analyzed |-> analyzed, total_tokens |-> tokens]

\* a QueryAnswer whose confidence_score field has no ge/le constraint
AnswerFieldsUnbounded(e, cr) ==
    /\ e["isCovered"].t = "bool"
    /\ e["rationale"].t = "str"
    /\ e["confidence_score"].t = "num"
    /\ cr["page"].t \in {"num", "null"}
    /\ cr["clause_title"].t \in {"str", "null"}

\* the field values pydantic accepts for a QueryAnswer
AnswerFieldsValid(e, cr) ==
    /\ e["isCovered"].t = "bool"
    /\ e["rationale"].t = "str"
    /\ e["confidence_score"].t = "num"
    /\ 0 <= e["confidence_score"].v /\ e["confidence_score"].v <= Scale
    /\ cr["page"].t \in {"num", "null"}
    /\ cr["clause_title"].t \in {"str", "null"}

\* Step 5 of process_single_question: the QueryAnswer built from the
\* evaluation, or the exception building it raises
BuildAnswer(question, e, chunks) ==
    LET conds == Get(e, "conditions", List(<<>>))
        lims == Get(e, "limitations", List(<<>>))
        ref == Get(e, "clause_reference", Null)
        cr == IF ref.t = "obj"
              THEN [page |-> Get(ref.v, "page", Null),
                    clause_title |-> Get(ref.v, "clause_title", Null)]
              ELSE [page |-> Null, clause_title |-> Null]
    IN  IF conds.t # "list" \/ lims.t # "list" THEN Raise("TypeError")
        ELSE IF "clause_reference" \in DOMAIN e /\ ref.t # "obj"
        THEN Raise("AttributeError")
        ELSE IF ~AnswerFieldsValid(e, cr) THEN Raise("ValidationError")
        ELSE Return([question |-> question,
                     isCovered |-> e["isCovered"].v,
                     conditions |-> conds.v \o lims.v,
                     clause_reference |-> cr,
                     rationale |-> RationaleOf(e),
                     confidence_score |-> e["confidence_score"].v,
                     processing_metadata |-> Metadata(Len(chunks), Null)])

\* a placeholder that keeps the default confidence of an analysis
ErrorAnswerConfident(question, exc) ==
    [question |-> question,
     isCovered |-> FALSE,
     conditions |-> <<>>,
     clause_reference |-> [page |-> Null, clause_title |-> Str("Error")],
     rationale |-> <<"Failed to process question due to error: ", exc>>,
     confidence_score |-> 80,
     processing_metadata |-> Metadata(0, Num(0))]

\* the placeholder process_queries answers a failed question with
ErrorAnswer(question, exc) ==
    [question |-> question,
     isCovered |-> FALSE,
     conditions |-> <<>>,
     clause_reference |-> [page |-> Null, clause_title |-> Str("Error")],
     rationale |-> <<"Failed to process question due to error: ", exc>>,
     confidence_score |-> 0,
     processing_metadata |-> Metadata(0, Num(0))]

(***************************************************************************)
(* process_queries                                                         *)
(***************************************************************************)
NoReply == [kind |-> "none"]
NoResponse == [status |-> 0]

\* the handler before a request arrives
ApiIdle ==
    /\ pc = "idle"
    /\ max_questions_per_request = QuestionLimit
    /\ documents = ""
    /\ questions = <<>>
    /\ document_chunks = -1
    /\ index = {}
    /\ qi = 0
    /\ relevant_chunks = <<>>
    /\ answers = <<>>
    /\ successful_responses = 0
    /\ response = NoResponse
    /\ inputs = <<>>
    /\ events = <<>>
    /\ client_calls = 0
    /\ downloads = 0

\* a request arrives: its body and the settings it runs under
Received(QuestionLists, Limits) ==
    /\ pc = "validate"
    /\ max_questions_per_request \in Limits
    /\ documents \in {"https://example.com/policy.pdf"}
    /\ questions \in QuestionLists
    /\ document_chunks = -1
    /\ index = {}
    /\ qi = 0
    /\ relevant_chunks = <<>>
    /\ answers = <<>>
    /\ successful_responses = 0
    /\ response = NoResponse
    /\ inputs = <<>>
    /\ events = <<>>
    /\ client_calls = 0
    /\ downloads = 0

\* the handler answers with an error status and stops
Fail(status) ==
    /\ response' = [status |-> status]
    /\ pc' = "responded"

\* FastAPI validates the body against QueryRequest before the handler runs
ValidateRequest ==
    /\ pc = "validate"
    /\ IF RequestValid(questions)
       THEN pc' = "init_services" /\ UNCHANGED response
       ELSE Fail(422)
    /\ UNCHANGED <<max_questions_per_request, documents, questions, document_chunks,
                   index, qi, relevant_chunks, answers, successful_responses,
                   inputs, events, client_calls, downloads>>
    /\ UNCHANGED <<de_vars, ck_vars, fn_vars, vs_vars, ei_vars>>

\* "Initialize services": get_retrieval_engine connects to the index
InitServices(Outcomes) ==
    /\ pc = "init_services"
    /\ \E ok \in Outcomes :
        IF ok THEN pc' = "process_document" /\ UNCHANGED response
        ELSE Fail(500)
    /\ UNCHANGED <<max_questions_per_request, documents, questions, document_chunks,
                   index, qi, relevant_chunks, answers, successful_responses,
                   inputs, events, client_calls, downloads>>
    /\ UNCHANGED <<de_vars, ck_vars, fn_vars, vs_vars, ei_vars>>

\* process_queries without its check for an empty document
NoContentUnchecked(n) == FALSE

\* the document yields no chunk: process_queries gives up with HTTP 400
NoContent(n) == n = 0

\* Step 1: process_blob_url raises (-1) or returns n chunks
ProcessDocument(Outcomes) ==
    /\ pc = "process_document"
    /\ downloads' = downloads + 1
    /\ \E n \in Outcomes :
        /\ document_chunks' = n
        /\ IF n = -1 THEN Fail(500)
           ELSE IF NoContent(n) THEN Fail(400)
           ELSE pc' = "store" /\ UNCHANGED response
    /\ UNCHANGED <<max_questions_per_request, documents, questions,
                   index, qi, relevant_chunks, answers, successful_responses,
                   inputs, events, client_calls>>
    /\ UNCHANGED <<de_vars, ck_vars, fn_vars, vs_vars, ei_vars>>

\* Step 2: store_document raises (embedding or upsert failure) or upserts
\* one vector per chunk
StoreDocument(Outcomes) ==
    /\ pc = "store"
    /\ client_calls' = client_calls + 1
    /\ \E ok \in Outcomes :
        IF ok
        THEN /\ index' = Upsert(index, VectorsOf(DocumentId(documents), document_chunks))
             /\ pc' = "analyze_query"
             /\ qi' = 1
             /\ UNCHANGED response
        ELSE Fail(500) /\ UNCHANGED <<index, qi>>
    /\ UNCHANGED <<max_questions_per_request, documents, questions, document_chunks,
                   relevant_chunks, answers, successful_responses,
                   inputs, events, downloads>>
    /\ UNCHANGED <<de_vars, ck_vars, fn_vars, vs_vars, ei_vars>>

\* process_single_question, step 1: analyze_query catches every failure of
\* its call and its result is not used
AnalyzeQuery ==
    /\ pc = "analyze_query"
    /\ client_calls' = client_calls + 1
    /\ events' = Append(events, <<"analyze_query", qi>>)
    /\ pc' = "retrieve"
    /\ UNCHANGED <<max_questions_per_request, documents, questions, document_chunks,
                   index, qi, relevant_chunks, answers, successful_responses, response,
                   inputs, downloads>>
    /\ UNCHANGED <<de_vars, ck_vars, fn_vars, vs_vars, ei_vars>>

\* process_single_question without its rerank step
AfterRetrieveNoRerank(chunks) == "analysis"

\* where process_single_question goes with the retrieved chunks (step 3)
AfterRetrieve(chunks) ==
    IF Len(chunks) > rerank_top_k THEN "rerank" ELSE "analysis"

\* process_single_question, step 2: retrieve_relevant_chunks
RetrieveRelevantChunks(Outcomes) ==
    /\ pc = "retrieve"
    /\ client_calls' = client_calls + 1
    /\ events' = Append(events, <<"retrieve", qi>>)
    /\ \E k \in RetrievalOutcomes(index, DocumentId(documents)) \cap Outcomes :
        /\ relevant_chunks' = RetrieveResult(k)
        /\ inputs' = Append(inputs, [retrieved |-> k, rerank |-> NoReply,
                                     analysis |-> NoReply])
        /\ pc' = AfterRetrieve(RetrieveResult(k))
    /\ UNCHANGED <<max_questions_per_request, documents, questions, document_chunks,
                   index, qi, answers, successful_responses, response, downloads>>
    /\ UNCHANGED <<de_vars, ck_vars, fn_vars, vs_vars, ei_vars>>

\* process_single_question, step 3: rerank_chunks
RerankChunks ==
    /\ pc = "rerank"
    /\ client_calls' = client_calls + 1
    /\ events' = Append(events, <<"rerank", qi>>)
    /\ \E reply \in RerankReplies :
        /\ relevant_chunks' = RerankResult(relevant_chunks, reply)
        /\ inputs' = [inputs EXCEPT ![qi].rerank = reply]
    /\ pc' = "analysis"
    /\ UNCHANGED <<max_questions_per_request, documents, questions, document_chunks,
                   index, qi, answers, successful_responses, response, downloads>>
    /\ UNCHANGED <<de_vars, ck_vars, fn_vars, vs_vars, ei_vars>>

\* a loop that skips a failed question
AnswersAfterFailureSkipped(as, q, exc) == as

\* the answers after question q failed with exc (the except clause of the
\* loop of process_queries)
AnswersAfterFailure(as, q, exc) == Append(as, ErrorAnswer(q, exc))

\* the loop of process_queries moves on from the question at position i
QuestionDone(i) ==
    /\ qi' = i + 1
    /\ pc' = IF i = Len(questions) THEN "respond" ELSE "analyze_query"

\* process_single_question, step 4 with no relevant chunk: the fallback
\* reads the name chunks, which process_single_question does not define
FallbackAnalysis ==
    /\ pc = "analysis"
    /\ relevant_chunks = <<>>
    /\ events' = Append(events, <<"error", qi>>)
    /\ answers' = AnswersAfterFailure(answers, questions[qi],
                                      "NameError: name 'chunks' is not defined")
    /\ QuestionDone(qi)
    /\ UNCHANGED <<max_questions_per_request, documents, questions, document_chunks,
                   index, relevant_chunks, successful_responses, response,
                   inputs, client_calls, downloads>>
    /\ UNCHANGED <<de_vars, ck_vars, fn_vars, vs_vars, ei_vars>>

\* process_single_question, steps 4 and 5 with relevant chunks:
\* perform_fast_analysis, then the QueryAnswer or the placeholder
PerformFastAnalysis(Replies) ==
    /\ pc = "analysis"
    /\ relevant_chunks # <<>>
    /\ client_calls' = client_calls + 1
    /\ \E reply \in Replies :
        LET evaluation == PerformFastAnalysisResult(questions[qi], relevant_chunks, reply)
            c == BuildAnswer(questions[qi], evaluation, relevant_chunks)
        IN  /\ inputs' = [inputs EXCEPT ![qi].analysis = reply]
            /\ IF c.raised
               THEN /\ answers' = AnswersAfterFailure(answers, questions[qi], c.exc)
                    /\ events' = events \o <<<<"fast_analysis", qi>>, <<"error", qi>>>>
                    /\ UNCHANGED successful_responses
               ELSE /\ answers' = Append(answers, c.value)
                    /\ events' = events \o <<<<"fast_analysis", qi>>, <<"answer", qi>>>>
                    /\ successful_responses' = successful_responses + 1
    /\ QuestionDone(qi)
    /\ UNCHANGED <<max_questions_per_request, documents, questions, document_chunks,
                   index, relevant_chunks, response, downloads>>
    /\ UNCHANGED <<de_vars, ck_vars, fn_vars, vs_vars, ei_vars>>

\* Step 4 of process_queries: the response
Respond ==
    /\ pc = "respond"
    /\ response' = [status |-> 200,
                    answers |-> answers,
                    processing_summary |->
                        [total_questions |-> Len(questions),
                         successful_responses |-> successful_responses]]
    /\ pc' = "responded"
    /\ UNCHANGED <<max_questions_per_request, documents, questions, document_chunks,
                   index, qi, relevant_chunks, answers, successful_responses,
                   inputs, events, client_calls, downloads>>
    /\ UNCHANGED <<de_vars, ck_vars, fn_vars, vs_vars, ei_vars>>

(***************************************************************************)
(* DecisionEngine                                                          *)
(***************************************************************************)
SubQuestionNames == {"s1", "s2"}

\* a passage of the document the model quotes as evidence for sq
QuoteFor(sq) == CASE sq = "s1" -> "quote 1" [] sq = "s2" -> "quote 2" [] OTHER -> "quote"

\* a limitation the model reports for sq
LimitFor(sq) == CASE sq = "s1" -> "limit 1" [] sq = "s2" -> "limit 2" [] OTHER -> "limit"

\* replies the client gives to the decomposition prompt
DecomposeReplies ==
    {Raises, NonJson, Json(Num(5)), Json(Obj([s1 |-> Str("why")]))}
    \cup {Json(List(l)) : l \in SeqUpTo(SubQuestionNames, MaxSubQuestions)}

\* replies the client gives to the analysis prompt of sub-question sq
AnalyzeReplies(sq) ==
    {Raises, NonJson, Json(List(<<"yes">>)),
     Json(Obj([sub_question |-> Str(sq), is_addressed |-> Bool(TRUE),
               evidence |-> List(<<QuoteFor(sq)>>), answer |-> Str("Yes"),
               confidence |-> Num(90), limitations |-> List(<<>>)])),
     Json(Obj([sub_question |-> Str(sq), is_addressed |-> Bool(FALSE),
               evidence |-> List(<<>>), answer |-> Str("Not mentioned"),
               confidence |-> Num(30), limitations |-> List(<<LimitFor(sq)>>)])),
     Json(Obj([sub_question |-> Str(sq), is_addressed |-> Bool(TRUE),
               evidence |-> List(<<QuoteFor(sq)>>), answer |-> Str("Unclear"),
               confidence |-> Num(0), limitations |-> List(<<LimitFor(sq)>>)])),
     Json(Obj([sub_question |-> Str(sq), is_addressed |-> Bool(FALSE),
               answer |-> Str("No"), confidence |-> Num(80)]))}

\* replies the client gives to the synthesis prompt
SynthesisReplies ==
    {Raises, NonJson, Json(List(<<"covered">>)),
     Json(Obj([isCovered |-> Bool(TRUE)])),
     Json(Obj([isCovered |-> Bool(TRUE),
               conditions |-> List(<<"24-month waiting period">>),
               confidence_score |-> Num(85)])),
     Json(Obj([isCovered |-> Bool(FALSE), conditions |-> List(<<>>),
               limitations |-> List(<<"excluded">>),
               clause_reference |-> Obj([page |-> Null, clause_title |-> Null]),
               rationale |-> Str("not covered"), confidence_score |-> Num(40),
               evidence_strength |-> Str("weak"), completeness |-> Str("partial"),
               contradictions |-> List(<<>>), gaps |-> List(<<>>)]))}

\* replies the client gives to the validation prompt
ValidationReplies ==
    {Raises, NonJson, Json(List(<<"accept">>)),
     Json(Obj([is_consistent |-> Bool(TRUE), final_recommendation |-> Str("accept")])),
     Json(Obj([is_consistent |-> Bool(FALSE),
               consistency_issues |-> List(<<"confidence too high">>),
               suggested_corrections |-> Obj([confidence_score |-> Num(50),
                                              field_name |-> Str("corrected_value")]),
               validation_confidence |-> Num(80),
               final_recommendation |-> Str("revise")]))}

\* the JSON type each stage asks the model for
ExpectedType(stage) == IF stage = "decompose" THEN "list" ELSE "obj"

\* the reply counts as a stage failure: an exception or unparseable text
Failed(reply) == reply.kind # "json"

\* the reply parses, to JSON of another type than the stage asked for
IllTyped(stage, reply) == reply.kind = "json" /\ reply.value.t # ExpectedType(stage)

\* the items a for loop over a parsed JSON value visits (a dict yields its
\* keys; the dicts of the model have one key)
IterItems(v) ==
    CASE v.t = "list" -> v.v
      [] v.t = "obj" -> <<CHOOSE k \in DOMAIN v.v : TRUE>>

\* _decompose_query without its outer except clause: an exception of the
\* client escapes
DecomposeQueryNoCatch(query, reply) ==
    CASE reply.kind = "raise" -> Raise("Exception")
      [] reply.kind = "text" -> Return(<<query>>)
      [] reply.kind = "json" ->
            IF reply.value.t \in {"list", "obj"}
            THEN Return(IterItems(reply.value))
            ELSE Return(<<query>>)

\* _decompose_query: the reply parsed, or [query] when the call raises,
\* the reply does not parse, or len() of the parsed value raises
DecomposeQuery(query, reply) ==
    CASE reply.kind = "raise" -> Return(<<query>>)
      [] reply.kind = "text" -> Return(<<query>>)
      [] reply.kind = "json" ->
            IF reply.value.t \in {"list", "obj"}
            THEN Return(IterItems(reply.value))
            ELSE Return(<<query>>)

\* _analyze_sub_question: the reply parsed, or the placeholder of the
\* failure (parse failure / exception)
AnalyzeSubQuestionResult(sq, reply) ==
    CASE reply.kind = "json" -> Return(reply.value)
      [] reply.kind = "text" ->
            Return(Obj([sub_question |-> Str(sq), is_addressed |-> Bool(FALSE),
                        evidence |-> List(<<>>),
                        answer |-> Str("Unable to analyze due to parsing error"),
                        confidence |-> Num(0),
                        limitations |-> List(<<"Analysis parsing failed">>),
                        source_chunks |-> List(<<>>)]))
      [] reply.kind = "raise" ->
            Return(Obj([sub_question |-> Str(sq), is_addressed |-> Bool(FALSE),
                        evidence |-> List(<<>>),
                        answer |-> Str("Analysis failed"),
                        confidence |-> Num(0),
                        limitations |-> List(<<"Analysis error">>),
                        source_chunks |-> List(<<>>)]))

\* every analysis is a dict, so analysis.get(...) works on each
AllDicts(analyses) == \A i \in 1..Len(analyses) : analyses[i].t = "obj"

\* the list-valued field k of every analysis that has a truthy one,
\* extended onto one list in order (all_limitations, all_evidence)
RECURSIVE ExtendAll(_, _)
ExtendAll(analyses, k) ==
    IF analyses = <<>> THEN <<>>
    ELSE (IF Truthy(Get(Head(analyses).v, k, Null)) THEN Head(analyses).v[k].v ELSE <<>>)
         \o ExtendAll(Tail(analyses), k)

\* confidence_scores: the truthy confidence values, in order
RECURSIVE ConfidenceScores(_)
ConfidenceScores(analyses) ==
    IF analyses = <<>> THEN <<>>
    ELSE (IF Truthy(Get(Head(analyses).v, "confidence", Null))
          THEN <<Head(analyses).v["confidence"].v>> ELSE <<>>)
         \o ConfidenceScores(Tail(analyses))

\* avg_confidence with a floor of 0.7 put under it
AvgConfidenceFloored(analyses) ==
    LET cs == ConfidenceScores(analyses)
        avg == IF cs # <<>> THEN SumSeq(cs) \div Len(cs) ELSE 0
    IN  IF avg > 70 THEN avg ELSE 70

\* avg_confidence of _create_fallback_synthesis
AvgConfidence(analyses) ==
    LET cs == ConfidenceScores(analyses)
    IN  IF cs # <<>> THEN SumSeq(cs) \div Len(cs) ELSE 0

\* any(a.get("is_addressed", False) for a in sub_analyses)
AnyAddressed(analyses) ==
    \E i \in 1..Len(analyses) : Truthy(Get(analyses[i].v, "is_addressed", Bool(FALSE)))

\* _create_fallback_synthesis: AttributeError on an analysis without .get
CreateFallbackSynthesis(query, analyses) ==
    IF ~AllDicts(analyses) THEN Raise("AttributeError")
    ELSE LET avg == AvgConfidence(analyses)
         IN  Return(Obj(
               [isCovered |-> Bool(AnyAddressed(analyses)),
                conditions |-> List(<<>>),
                limitations |-> List(ExtendAll(analyses, "limitations")),
                clause_reference |-> Obj([page |-> Null,
                                          clause_title |-> Str("Multiple sources")]),
                rationale |-> FStr("Analysis based on {n} sub-questions. Fallback synthesis used due to processing limitations.",
                                   Len(analyses)),
                confidence_score |-> Num(avg),
                evidence_strength |-> Str(IF avg > 60 THEN "moderate" ELSE "weak"),
                completeness |-> Str("partial"),
                contradictions |-> List(<<>>),
                gaps |-> List(<<"Detailed synthesis unavailable">>)]))

\* _synthesize_analysis reaches its generate_content call: building the
\* prompt calls analysis.get on every sub-analysis
SynthesisPromptBuilt(analyses) == AllDicts(analyses)

\* _synthesize_analysis: the reply parsed, or the fallback synthesis
SynthesizeAnalysis(query, analyses, reply) ==
    IF reply.kind = "json" THEN Return(reply.value)
    ELSE CreateFallbackSynthesis(query, analyses)

\* the suggested corrections applied to the fields the analysis has
ApplyCorrections(analysis, corrections) ==
    [k \in DOMAIN analysis |->
        IF k \in DOMAIN corrections THEN corrections[k] ELSE analysis[k]]

\* the annotation of a validation that could not be done
ValidationUnavailable(issue) ==
    Obj([is_consistent |-> Bool(TRUE),
         consistency_issues |-> List(<<issue>>),
         validation_confidence |-> Num(50),
         recommendation |-> Str("accept")])

\* _validate_consistency: analysis["validation"] = ... needs a dict, in the
\* handlers too
ValidateConsistencyResult(analysis, reply) ==
    IF analysis.t # "obj" THEN Raise("TypeError")
    ELSE
    CASE reply.kind = "json" ->
            IF reply.value.t # "obj"
            THEN Return(Obj(Put(analysis.v, "validation",
                                ValidationUnavailable("Validation error"))))
            ELSE
            LET validation == reply.value.v
                given == Get(validation, "suggested_corrections", Null)
                corrected == IF Truthy(given) THEN ApplyCorrections(analysis.v, given.v)
                             ELSE analysis.v
            IN  Return(Obj(Put(corrected, "validation",
                   Obj([is_consistent |-> Get(validation, "is_consistent", Bool(TRUE)),
                        consistency_issues |-> Get(validation, "consistency_issues", List(<<>>)),
                        validation_confidence |-> Get(validation, "validation_confidence", Num(100)),
                        recommendation |-> Get(validation, "final_recommendation", Str("accept"))]))))
      [] reply.kind = "text" ->
            Return(Obj(Put(analysis.v, "validation",
                           ValidationUnavailable("Validation parsing failed"))))
      [] reply.kind = "raise" ->
            Return(Obj(Put(analysis.v, "validation",
                           ValidationUnavailable("Validation error"))))

\* the bookkeeping of one generate_content call of a stage
NoteCall(stage, what, reply) ==
    /\ de_calls' = Append(de_calls, <<stage, what>>)
    /\ de_failed' = IF Failed(reply) THEN de_failed \cup {stage} ELSE de_failed
    /\ de_illtyped' = (de_illtyped \/ IllTyped(stage, reply))

\* the engine before analyze_complex_query is called
DecisionIdle ==
    /\ de_pc = "idle"
    /\ de_query = ""
    /\ sub_questions = <<>>
    /\ sub_analyses = <<>>
    /\ final_analysis = None
    /\ de_result = None
    /\ de_calls = <<>>
    /\ de_failed = {}
    /\ de_illtyped = FALSE

InitDecision ==
    /\ ApiIdle
    /\ ChunkerIdle
    /\ StoreIdle
    /\ EnsureIdle
    /\ FunctionIdle
    /\ de_pc = "decompose"
    /\ de_query \in {"Does this policy cover knee surgery?"}
    /\ sub_questions = <<>>
    /\ sub_analyses = <<>>
    /\ final_analysis = None
    /\ de_result = None
    /\ de_calls = <<>>
    /\ de_failed = {}
    /\ de_illtyped = FALSE

\* Step 1 of analyze_complex_query
Decompose ==
    /\ de_pc = "decompose"
    /\ \E reply \in DecomposeReplies :
        LET c == DecomposeQuery(de_query, reply)
        IN  /\ NoteCall("decompose", de_query, reply)
            /\ IF c.raised
               THEN de_pc' = "raised" /\ UNCHANGED sub_questions
               ELSE /\ sub_questions' = c.value
                    /\ de_pc' = IF c.value = <<>> THEN "synthesize" ELSE "analyze"
    /\ UNCHANGED <<de_query, sub_analyses, final_analysis, de_result>>
    /\ UNCHANGED <<api_vars, ck_vars, fn_vars, vs_vars, ei_vars>>

\* Step 2 of analyze_complex_query, one iteration of the loop
AnalyzeSubQuestion ==
    /\ de_pc = "analyze"
    /\ LET sq == sub_questions[Len(sub_analyses) + 1]
       IN  \E reply \in AnalyzeReplies(sq) :
            LET c == AnalyzeSubQuestionResult(sq, reply)
            IN  /\ NoteCall("analyze", sq, reply)
                /\ IF c.raised
                   THEN de_pc' = "raised" /\ UNCHANGED sub_analyses
                   ELSE /\ sub_analyses' = Append(sub_analyses, c.value)
                        /\ de_pc' = IF Len(sub_analyses) + 1 = Len(sub_questions)
                                    THEN "synthesize" ELSE "analyze"
    /\ UNCHANGED <<de_query, sub_questions, final_analysis, de_result>>
    /\ UNCHANGED <<api_vars, ck_vars, fn_vars, vs_vars, ei_vars>>

\* Step 3 of analyze_complex_query
Synthesize ==
    /\ de_pc = "synthesize"
    /\ IF ~SynthesisPromptBuilt(sub_analyses)
       THEN \* the except handler runs the fallback without a call
            LET c == CreateFallbackSynthesis(de_query, sub_analyses)
            IN  /\ IF c.raised
                   THEN de_pc' = "raised" /\ UNCHANGED final_analysis
                   ELSE de_pc' = "validate" /\ final_analysis' = c.value
                /\ UNCHANGED <<de_calls, de_failed, de_illtyped>>
       ELSE \E reply \in SynthesisReplies :
            LET c == SynthesizeAnalysis(de_query, sub_analyses, reply)
            IN  /\ NoteCall("synthesize", de_query, reply)
                /\ IF c.raised
                   THEN de_pc' = "raised" /\ UNCHANGED final_analysis
                   ELSE de_pc' = "validate" /\ final_analysis' = c.value
    /\ UNCHANGED <<de_query, sub_questions, sub_analyses, de_result>>
    /\ UNCHANGED <<api_vars, ck_vars, fn_vars, vs_vars, ei_vars>>

\* Step 4 of analyze_complex_query, and its return
ValidateConsistency ==
    /\ de_pc = "validate"
    /\ \E reply \in ValidationReplies :
        LET c == ValidateConsistencyResult(final_analysis, reply)
        IN  /\ NoteCall("validate", de_query, reply)
            /\ IF c.raised
               THEN de_pc' = "raised" /\ UNCHANGED de_result
               ELSE de_pc' = "done" /\ de_result' = c.value
    /\ UNCHANGED <<de_query, sub_questions, sub_analyses, final_analysis>>
    /\ UNCHANGED <<api_vars, ck_vars, fn_vars, vs_vars, ei_vars>>

NextDecision ==
    \/ Decompose
    \/ AnalyzeSubQuestion
    \/ Synthesize
    \/ ValidateConsistency

SpecDecision == InitDecision /\ [][NextDecision]_vars

(***************************************************************************)
(* Strings of the chunker.  A string is the sequence of its runs: a run is *)
(* n >= 1 copies of one character.                                         *)
(***************************************************************************)
Run(c, n) == [c |-> c, n |-> n]

\* str.isspace of the characters of a run
IsSpace(r) == r.c \in {" ", "\n"}

\* len(s)
RECURSIVE StrLen(_)
StrLen(s) == IF s = <<>> THEN 0 ELSE Head(s).n + StrLen(Tail(s))

\* the same string with adjacent runs of one character joined
RECURSIVE Normalize(_)
Normalize(s) ==
    IF Len(s) <= 1 THEN s
    ELSE IF s[1].c = s[2].c
    THEN Normalize(<<Run(s[1].c, s[1].n + s[2].n)>> \o SubSeq(s, 3, Len(s)))
    ELSE <<s[1]>> \o Normalize(Tail(s))

\* a + b
Concat(a, b) == Normalize(a \o b)

RECURSIVE LStrip(_)
LStrip(s) == IF s # <<>> /\ IsSpace(Head(s)) THEN LStrip(Tail(s)) ELSE s

RECURSIVE RStrip(_)
RStrip(s) ==
    IF s # <<>> /\ IsSpace(s[Len(s)]) THEN RStrip(SubSeq(s, 1, Len(s) - 1)) ELSE s

\* s.strip()
StripStr(s) == RStrip(LStrip(s))

\* s[-k:]
RECURSIVE Suffix(_, _)
Suffix(s, k) ==
    IF k = 0 \/ s = <<>> THEN <<>>
    ELSE LET last == s[Len(s)]
         IN  IF last.n >= k THEN <<Run(last.c, k)>>
             ELSE Suffix(SubSeq(s, 1, Len(s) - 1), k - last.n) \o <<last>>

\* s.split('\n\n') continued, acc being the piece under construction: a run
\* of n newlines ends the piece, leaves n \div 2 - 1 empty pieces and starts
\* the next piece with the odd newline
RECURSIVE SplitFrom(_, _)
SplitFrom(s, acc) ==
    IF s = <<>> THEN <<acc>>
    ELSE LET r == Head(s)
         IN  IF r.c = "\n" /\ r.n >= 2
             THEN <<acc>> \o [i \in 1..((r.n \div 2) - 1) |-> <<>>]
                  \o SplitFrom(Tail(s), IF r.n % 2 = 1 THEN <<Run("\n", 1)>> ELSE <<>>)
             ELSE SplitFrom(Tail(s), acc \o <<r>>)

\* s.split('\n\n')
SplitParagraphs(s) == SplitFrom(Normalize(s), <<>>)

\* [p.strip() for p in pieces if p.strip()]
RECURSIVE StrippedNonEmpty(_)
StrippedNonEmpty(pieces) ==
    IF pieces = <<>> THEN <<>>
    ELSE (IF StripStr(Head(pieces)) # <<>> THEN <<StripStr(Head(pieces))>> ELSE <<>>)
         \o StrippedNonEmpty(Tail(pieces))

(***************************************************************************)
(* DocumentProcessor._split_text_into_chunks                               *)
(***************************************************************************)
optimal_chunk_size == Min(max_chunk_size * 3, 3072)

\* the paragraph separator the chunker joins with
ParagraphBreak == <<Run("\n", 2)>>

\* the runs the texts are made of: words of 100, 149 and 2900 characters, a
\* word of another letter, a space and a paragraph break
TextRuns ==
    {Run("x", 100), Run("x", 149), Run("x", 2900), Run("y", 100), Run(" ", 1),
     Run("\n", 2)}

Texts == SeqUpTo(TextRuns, MaxRuns)

\* the paragraphs of the stripped text (the split by sentences when there is
\* none)
ParagraphsOf(t) ==
    LET ps == StrippedNonEmpty(SplitParagraphs(t))
    IN  IF ps # <<>> THEN ps ELSE <<Concat(StripStr(t), <<Run(".", 1)>>)>>

\* current_chunk + "\n\n" + paragraph if current_chunk else paragraph
PotentialChunk(current, paragraph) ==
    IF current # <<>> THEN Concat(Concat(current, ParagraphBreak), paragraph)
    ELSE paragraph

\* a buffer saved whatever its length
MeaningfulAlways(current) == current # <<>>

\* "if it has meaningful content"
Meaningful(current) ==
    current # <<>> /\ StrLen(StripStr(current)) > min_chunk_size

\* the DocumentChunk made of the buffer
ChunkOf(current, i) ==
    [text |-> StripStr(current),
     metadata |-> [source |-> "document",
                   chunk_index |-> i,
                   chunk_size |-> StrLen(current),
                   chunk_type |-> "optimized",
                   paragraph_count |-> Len(StrippedNonEmpty(SplitParagraphs(current)))]]

\* the buffer a new chunk starts with
NewChunk(current, paragraph) ==
    IF current # <<>> /\ StrLen(current) > overlap_size
    THEN Concat(Concat(Suffix(current, overlap_size), ParagraphBreak), paragraph)
    ELSE paragraph

\* _split_text_into_chunks is called with a text
InitChunker ==
    /\ ApiIdle
    /\ DecisionIdle
    /\ FunctionIdle
    /\ StoreIdle
    /\ EnsureIdle
    /\ ck_pc = "strip"
    /\ ck_text \in Texts
    /\ paragraphs = <<>>
    /\ current_chunk = <<>>
    /\ chunk_index = 0
    /\ ck_chunks = <<>>

\* text.strip(), the early return and the split into paragraphs
StripText ==
    /\ ck_pc = "strip"
    /\ ck_text' = StripStr(Normalize(ck_text))
    /\ IF ck_text' = <<>>
       THEN ck_pc' = "returned" /\ UNCHANGED paragraphs
       ELSE ck_pc' = "loop" /\ paragraphs' = ParagraphsOf(ck_text')
    /\ UNCHANGED <<current_chunk, chunk_index, ck_chunks>>
    /\ UNCHANGED <<api_vars, de_vars, fn_vars, vs_vars, ei_vars>>

\* the loop body when the paragraph fits the buffer
Accumulate ==
    /\ ck_pc = "loop"
    /\ paragraphs # <<>>
    /\ StrLen(PotentialChunk(current_chunk, Head(paragraphs))) <= optimal_chunk_size
    /\ current_chunk' = PotentialChunk(current_chunk, Head(paragraphs))
    /\ paragraphs' = Tail(paragraphs)
    /\ UNCHANGED <<ck_pc, ck_text, chunk_index, ck_chunks>>
    /\ UNCHANGED <<api_vars, de_vars, fn_vars, vs_vars, ei_vars>>

\* the loop body when it does not: the buffer is saved if meaningful and a
\* new one is started
StartNewChunk ==
    /\ ck_pc = "loop"
    /\ paragraphs # <<>>
    /\ ~(StrLen(PotentialChunk(current_chunk, Head(paragraphs))) <= optimal_chunk_size)
    /\ IF Meaningful(current_chunk)
       THEN /\ ck_chunks' = Append(ck_chunks, ChunkOf(current_chunk, chunk_index))
            /\ chunk_index' = chunk_index + 1
       ELSE UNCHANGED <<ck_chunks, chunk_index>>
    /\ current_chunk' = NewChunk(current_chunk, Head(paragraphs))
    /\ paragraphs' = Tail(paragraphs)
    /\ UNCHANGED <<ck_pc, ck_text>>
    /\ UNCHANGED <<api_vars, de_vars, fn_vars, vs_vars, ei_vars>>

\* after the loop: the final chunk, and the return
FinalChunk ==
    /\ ck_pc = "loop"
    /\ paragraphs = <<>>
    /\ IF Meaningful(current_chunk)
       THEN ck_chunks' = Append(ck_chunks, ChunkOf(current_chunk, chunk_index))
       ELSE UNCHANGED ck_chunks
    /\ ck_pc' = "returned"
    /\ UNCHANGED <<ck_text, paragraphs, current_chunk, chunk_index>>
    /\ UNCHANGED <<api_vars, de_vars, fn_vars, vs_vars, ei_vars>>

NextChunker ==
    \/ StripText
    \/ Accumulate
    \/ StartNewChunk
    \/ FinalChunk

SpecChunker == InitChunker /\ [][NextChunker]_vars

(***************************************************************************)
(* RetrievalEngine._enhance_with_keyword_search.  A query or chunk text is *)
(* the sequence of its characters; a similarity score is in hundredths; a  *)
(* keyword or combined score is the exact fraction num/den.                *)
(***************************************************************************)
\* str.lower, a character at a time
LowerChar(c) == CASE c = "A" -> "a" [] c = "B" -> "b" [] OTHER -> c

Lower(s) == [i \in 1..Len(s) |-> LowerChar(s[i])]

\* s.split() continued, acc being the word under construction
RECURSIVE WordsFrom(_, _)
WordsFrom(s, acc) ==
    IF s = <<>> THEN (IF acc = <<>> THEN <<>> ELSE <<acc>>)
    ELSE IF Head(s) = " "
    THEN (IF acc = <<>> THEN <<>> ELSE <<acc>>) \o WordsFrom(Tail(s), <<>>)
    ELSE WordsFrom(Tail(s), Append(acc, Head(s)))

\* s.split()
Words(s) == WordsFrom(s, <<>>)

\* word in text
Contains(txt, word) ==
    \E i \in 1..(Len(txt) - Len(word) + 1) : SubSeq(txt, i, i + Len(word) - 1) = word

\* a >= b for fractions of positive denominators
FracGE(a, b) == a.num * b.den >= b.num * a.den

\* the result with the scores _enhance_with_keyword_search adds to it
Enhanced(result, query_words) ==
    LET txt == Lower(result.text)
        keyword_matches == Cardinality({w \in query_words : Contains(txt, w)})
        keyword_score == IF query_words # {}
                         THEN [num |-> keyword_matches, den |-> Cardinality(query_words)]
                         ELSE [num |-> 0, den |-> 1]
    IN  [id |-> result.id, score |-> result.score, text |-> result.text,
         keyword_score |-> keyword_score,
         combined_score |-> [num |-> 7 * result.score * keyword_score.den
                                     + 3 * Scale * keyword_score.num,
                             den |-> 10 * Scale * keyword_score.den],
         keyword_matches |-> keyword_matches]

\* enhanced_results left in the order of the vector search
Unsorted(results) == results

\* enhanced_results.sort(key=combined_score, reverse=True): a stable sort,
\* equal scores keep their order
RECURSIVE SortByCombinedScore(_)
SortByCombinedScore(results) ==
    IF results = <<>> THEN <<>>
    ELSE LET x == results[Len(results)]
             sorted == SortByCombinedScore(SubSeq(results, 1, Len(results) - 1))
             k == Cardinality({i \in 1..Len(sorted) :
                                  FracGE(sorted[i].combined_score, x.combined_score)})
         IN  SubSeq(sorted, 1, k) \o <<x>> \o SubSeq(sorted, k + 1, Len(sorted))

\* _enhance_with_keyword_search
EnhanceResult(query, vector_results) ==
    LET query_words == Range(Words(Lower(query)))
    IN  SortByCombinedScore([i \in 1..Len(vector_results) |->
                                Enhanced(vector_results[i], query_words)])

\* queries: empty, blank, one word, two words in mixed case, a word that is
\* part of another, a repeated word
Queries ==
    {<<>>, <<" ">>, <<"a">>, <<"A", " ", "b">>, <<"a", "b", " ", "a">>, <<"a", " ", "a">>}

\* what a vector search can return for a chunk: its text and its similarity
Candidates ==
    [text : {<<>>, <<"a", "b">>, <<"b", " ", "A">>, <<"b", "a">>}, score : {50, 90}]

\* the results of a vector search, named by their place
VectorResults ==
    {[i \in 1..Len(cs) |-> [id |-> i, score |-> cs[i].score, text |-> cs[i].text]] :
        cs \in SeqUpTo(Candidates, MaxResults)}

\* _enhance_with_keyword_search is called
InitHybrid ==
    /\ ApiIdle
    /\ DecisionIdle
    /\ ChunkerIdle
    /\ StoreIdle
    /\ EnsureIdle
    /\ fn_pc = "call"
    /\ fn_args \in [query : Queries, vector_results : VectorResults]
    /\ fn_result = <<>>

EnhanceWithKeywordSearch ==
    /\ fn_pc = "call"
    /\ fn_result' = EnhanceResult(fn_args.query, fn_args.vector_results)
    /\ fn_pc' = "returned"
    /\ UNCHANGED fn_args
    /\ UNCHANGED <<api_vars, de_vars, ck_vars, vs_vars, ei_vars>>

SpecHybrid == InitHybrid /\ [][EnhanceWithKeywordSearch]_vars

(***************************************************************************)
(* VectorStore._select_best_chunks (services/vector_store.py)              *)
(***************************************************************************)
\* the score _select_best_chunks gives a chunk: its size class, plus 2 for
\* a content keyword, plus 1 for a structure indicator
ChunkScore(chunk) ==
    (IF 500 <= chunk.text_len /\ chunk.text_len <= 2000 THEN 3
     ELSE IF 200 <= chunk.text_len /\ chunk.text_len <= 3000 THEN 2
     ELSE 1)
    + (IF chunk.keyword THEN 2 ELSE 0)
    + (IF chunk.structured THEN 1 ELSE 0)

\* c put into a list sorted by descending score, after the chunks of the
\* same score (list.sort is stable)
RECURSIVE InsertByScore(_, _)
InsertByScore(sorted, c) ==
    IF sorted = <<>> THEN <<c>>
    ELSE IF ChunkScore(Head(sorted)) >= ChunkScore(c)
         THEN <<Head(sorted)>> \o InsertByScore(Tail(sorted), c)
         ELSE <<c>> \o sorted

\* scored_chunks.sort(key=score, reverse=True)
RECURSIVE SortByScore(_)
SortByScore(chunks) ==
    IF chunks = <<>> THEN <<>>
    ELSE InsertByScore(SortByScore(SubSeq(chunks, 1, Len(chunks) - 1)), chunks[Len(chunks)])

\* a selection that keeps the first max chunks whatever their scores
FirstChunks(chunks, max) == Take(chunks, max)

\* _select_best_chunks
SelectBestChunks(chunks, max) ==
    IF Len(chunks) <= max THEN chunks ELSE Take(SortByScore(chunks), max)

\* the chunks store_document_chunks goes on with
LimitChunks(chunks) ==
    IF Len(chunks) > max_chunks THEN SelectBestChunks(chunks, max_chunks) ELSE chunks

(***************************************************************************)
(* VectorStore.store_document_chunks over several requests                 *)
(* (services/vector_store.py)                                              *)
(***************************************************************************)
\* the document URLs of the requests
StoreUrls == {"u1", "u2"}

\* the document ids process_queries derives from them in one process
DocumentIds == {DocumentId(u) : u \in StoreUrls}

\* what a download of a URL can give at different times
Versions == {"v1", "v2"}

\* the chunks of a document: chunk i of version v has text <<v, i>>
ChunksOfVersion(v, n) == [i \in 1..n |-> <<v, i>>]

\* the chunk lists handed to store_document_chunks (never empty: an empty
\* document is rejected before)
ChunkLists == {ChunksOfVersion(v, n) : v \in Versions, n \in 1..MaxStored}

\* f"{document_id}_{chunk_index}"
Content(document_id, i) == document_id \o <<"_", i>>

Contents == {Content(d, i) : d \in DocumentIds, i \in 0..(MaxStored - 1)}

\* the values hexdigest()[:16] takes here: fewer than there are contents,
\* as 16 hex digits are fewer than there are strings
Hexdigests == {"a3f1", "9c0e"}

\* a vector id without the chunk index at its end
GenerateVectorIdNoSuffix(document_id, i) == <<"doc_", md5[Content(document_id, i)]>>

\* _generate_vector_id
GenerateVectorId(document_id, i) ==
    <<"doc_", md5[Content(document_id, i)], "_chunk_", i>>

\* generate_embeddings of one text
Embedding(text) == <<"embedding", text>>

\* the vectors store_document_chunks prepares for the upsert
PreparedVectors(document_id, chunks) ==
    {[id |-> GenerateVectorId(document_id, i - 1),
      values |-> Embedding(chunks[i]),
      document_id |-> document_id,
      chunk_index |-> i - 1,
      text |-> chunks[i]] : i \in 1..Len(chunks)}

\* the service starts with an empty index and some md5
InitStore ==
    /\ ApiIdle
    /\ DecisionIdle
    /\ ChunkerIdle
    /\ FunctionIdle
    /\ md5 \in [Contents -> Hexdigests]
    /\ store_calls = <<>>
    /\ EnsureIdle

\* one request stores the chunks of its document
StoreDocumentChunks ==
    /\ Len(store_calls) < MaxStoreCalls
    /\ \E document_id \in DocumentIds, chunks \in ChunkLists :
        /\ index' = Upsert(index, PreparedVectors(document_id, LimitChunks(chunks)))
        /\ store_calls' = Append(store_calls,
                [document_id |-> document_id,
                 chunks |-> LimitChunks(chunks),
                 ids |-> [i \in 1..Len(LimitChunks(chunks)) |->
                            GenerateVectorId(document_id, i - 1)]])
    /\ UNCHANGED md5
    /\ UNCHANGED <<request_vars, de_vars, ck_vars, fn_vars, ei_vars>>

SpecStore == InitStore /\ [][StoreDocumentChunks]_vars

(***************************************************************************)
(* VectorStore.delete_document (services/vector_store.py)                  *)
(***************************************************************************)
\* a query that matches every vector of the index
QueryMatchesUnfiltered(idx, document_id, top_k) == {idx}

\* index.query with a metadata filter on document_id: at most top_k of the
\* vectors that match
QueryMatches(idx, document_id, top_k) ==
    {ms \in SUBSET StoredFor(idx, document_id) :
        Cardinality(ms) = Min(top_k, Cardinality(StoredFor(idx, document_id)))}

\* index.delete(ids=...)
DeleteIds(idx, ids) == {v \in idx : v.id \notin ids}

\* the indexes two store_document_chunks calls can leave, and the empty one
IndexStates ==
    {{}} \cup {Upsert(PreparedVectors(d1, c1), PreparedVectors(d2, c2)) :
                  d1 \in DocumentIds, d2 \in DocumentIds,
                  c1 \in ChunkLists, c2 \in ChunkLists}

\* a document id no request has stored
UnknownDocument == DocumentId("u0")

\* delete_document is called on an index that holds documents
InitDelete ==
    /\ pc = "idle"
    /\ max_questions_per_request = QuestionLimit
    /\ documents = ""
    /\ questions = <<>>
    /\ document_chunks = -1
    /\ qi = 0
    /\ relevant_chunks = <<>>
    /\ answers = <<>>
    /\ successful_responses = 0
    /\ response = NoResponse
    /\ inputs = <<>>
    /\ events = <<>>
    /\ client_calls = 0
    /\ downloads = 0
    /\ DecisionIdle
    /\ ChunkerIdle
    /\ md5 \in [Contents -> Hexdigests]
    /\ store_calls = <<>>
    /\ EnsureIdle
    /\ index \in IndexStates
    /\ fn_pc = "call"
    /\ fn_args \in [document_id : DocumentIds \cup {UnknownDocument}, index : {index}]
    /\ fn_result = <<>>

\* delete_document: the ids of the matches are deleted, if there are any
DeleteDocument ==
    /\ fn_pc = "call"
    /\ \E matches \in QueryMatches(index, fn_args.document_id, delete_top_k) :
        LET vector_ids == {v.id : v \in matches}
        IN  /\ index' = IF vector_ids # {} THEN DeleteIds(index, vector_ids) ELSE index
            /\ fn_result' = [deleted |-> Cardinality(vector_ids),
                             delete_issued |-> vector_ids # {}]
    /\ fn_pc' = "returned"
    /\ UNCHANGED fn_args
    /\ UNCHANGED <<request_vars, de_vars, ck_vars, vs_vars, ei_vars>>

SpecDelete == InitDelete /\ [][DeleteDocument]_vars

(***************************************************************************)
(* VectorStore._ensure_index_exists (services/vector_store.py)             *)
(***************************************************************************)
\* settings.pinecone_index_name
index_name == "hackrx-documents"

\* the create_index calls one run can make: serverless, pod-based
\* "gcp-starter", then the four pod environments
CreateAttempts == 6

Initializers == 1..MaxInitializers

\* an initializer before initialize()
NotStarted ==
    [pc |-> "start", index_names |-> {}, attempt |-> 0, index_created |-> FALSE,
     already_exists |-> FALSE]

\* the index exists or not, and nobody has started
InitEnsure ==
    /\ ApiIdle
    /\ DecisionIdle
    /\ ChunkerIdle
    /\ FunctionIdle
    /\ StoreIdle
    /\ initializers = [p \in Initializers |-> NotStarted]
    /\ pinecone_indexes \in {{}, {index_name}}

\* list_indexes, then the test index_name not in index_names
ListIndexes(p) ==
    /\ initializers[p].pc = "start"
    /\ initializers' = [initializers EXCEPT
            ![p].index_names = pinecone_indexes,
            ![p].pc = IF index_name \notin pinecone_indexes THEN "create" ELSE "connect",
            ![p].attempt = IF index_name \notin pinecone_indexes THEN 1 ELSE 0]
    /\ UNCHANGED pinecone_indexes
    /\ UNCHANGED <<api_vars, de_vars, ck_vars, fn_vars, vs_vars>>

\* a create_index call that Pinecone accepts
CreateIndexSucceeds(p) ==
    /\ initializers[p].pc = "create"
    /\ index_name \notin pinecone_indexes
    /\ pinecone_indexes' = pinecone_indexes \cup {index_name}
    /\ initializers' = [initializers EXCEPT ![p].index_created = TRUE, ![p].pc = "sleep"]
    /\ UNCHANGED <<api_vars, de_vars, ck_vars, fn_vars, vs_vars>>

\* what follows a create_index call that raised: the next configuration, or
\* "Failed to create index with any configuration" after the last one
AfterCreateRaised(q) ==
    IF q.attempt < CreateAttempts
    THEN [q EXCEPT !.attempt = q.attempt + 1]
    ELSE [q EXCEPT !.pc = "raised"]

\* a create_index call that raises: the index exists by now, or Pinecone
\* rejects the configuration
CreateIndexRaises(p) ==
    /\ initializers[p].pc = "create"
    /\ initializers' = [initializers EXCEPT
            ![p] = AfterCreateRaised(
                      [initializers[p] EXCEPT
                          !.already_exists = @ \/ index_name \in pinecone_indexes])]
    /\ UNCHANGED pinecone_indexes
    /\ UNCHANGED <<api_vars, de_vars, ck_vars, fn_vars, vs_vars>>

\* asyncio.sleep(10) after the creation
WaitForIndex(p) ==
    /\ initializers[p].pc = "sleep"
    /\ initializers' = [initializers EXCEPT ![p].pc = "connect"]
    /\ UNCHANGED pinecone_indexes
    /\ UNCHANGED <<api_vars, de_vars, ck_vars, fn_vars, vs_vars>>

\* self._index = self._pinecone_client.Index(index_name)
ConnectIndex(p) ==
    /\ initializers[p].pc = "connect"
    /\ initializers' = [initializers EXCEPT ![p].pc = "connected"]
    /\ UNCHANGED pinecone_indexes
    /\ UNCHANGED <<api_vars, de_vars, ck_vars, fn_vars, vs_vars>>

\* initialize() is run again: by a restarted process, or by the next
\* service call after a run that raised (if not self._index)
InitializeAgain(p) ==
    /\ initializers[p].pc \in {"connected", "raised"}
    /\ initializers' = [initializers EXCEPT ![p] = NotStarted]
    /\ UNCHANGED pinecone_indexes
    /\ UNCHANGED <<api_vars, de_vars, ck_vars, fn_vars, vs_vars>>

NextEnsure ==
    \E p \in Initializers :
        \/ ListIndexes(p)
        \/ CreateIndexSucceeds(p)
        \/ CreateIndexRaises(p)
        \/ WaitForIndex(p)
        \/ ConnectIndex(p)
        \/ InitializeAgain(p)

SpecEnsure == InitEnsure /\ [][NextEnsure]_vars

(***************************************************************************)
(* DocumentProcessor.process_blob_url (services/document_processor.py)    *)
(***************************************************************************)
\* the size cap of _download_document in bytes
MaxDocumentBytes == max_document_size_mb * 1024 * 1024

\* sizes of documents around the cap
DocumentSizes == {0, 1, MaxDocumentBytes, MaxDocumentBytes + 1, 2 * MaxDocumentBytes}

\* the kinds of document: by content type for a download, by extension for
\* a local file
DocumentTypes == {"pdf", "word", "text", "other"}

\* the documents a URL can name: a remote one answered with a status, or a
\* local file that exists or not
BlobUrls ==
    [scheme : {"https"}, status : {200, 404}, size : DocumentSizes, type : DocumentTypes]
    \cup [scheme : {"file"}, exists : BOOLEAN, size : DocumentSizes, type : DocumentTypes]

\* what the extraction of a document can give: -1 when it raises, else the
\* number of chunks
ExtractionOutcomes == (-1)..MaxChunks

\* process_blob_url ended with an exception, before or in the extraction
BlobRaised(extracted) == [raised |-> TRUE, extracted |-> extracted, chunks |-> 0]

\* _process_pdf_content, _process_docx_content or _process_text_content by
\* the kind of document; other kinds give no chunks without extraction
ProcessContent(type, outcome) ==
    IF type = "other" THEN [raised |-> FALSE, extracted |-> FALSE, chunks |-> 0]
    ELSE IF outcome = -1 THEN BlobRaised(TRUE)
    ELSE [raised |-> FALSE, extracted |-> TRUE, chunks |-> outcome]

\* _download_document, then the processing of the content
ProcessRemote(url, outcome) ==
    IF url.status # 200 THEN BlobRaised(FALSE)
    ELSE IF url.size > MaxDocumentBytes THEN BlobRaised(FALSE)
    ELSE ProcessContent(url.type, outcome)

\* _process_local_file
ProcessLocalFile(url, outcome) ==
    IF ~url.exists THEN BlobRaised(FALSE)
    ELSE ProcessContent(url.type, outcome)

\* process_blob_url is called
InitBlob ==
    /\ ApiIdle
    /\ DecisionIdle
    /\ ChunkerIdle
    /\ StoreIdle
    /\ EnsureIdle
    /\ fn_pc = "call"
    /\ fn_args \in BlobUrls
    /\ fn_result = <<>>

ProcessBlobUrl ==
    /\ fn_pc = "call"
    /\ \E outcome \in ExtractionOutcomes :
        fn_result' = IF fn_args.scheme = "file"
                     THEN ProcessLocalFile(fn_args, outcome)
                     ELSE ProcessRemote(fn_args, outcome)
    /\ fn_pc' = "returned"
    /\ UNCHANGED fn_args
    /\ UNCHANGED <<api_vars, de_vars, ck_vars, vs_vars, ei_vars>>

SpecBlob == InitBlob /\ [][ProcessBlobUrl]_vars

(***************************************************************************)
(* store_document_chunks as a function of the chunks it is given           *)
(***************************************************************************)
\* kinds of chunk, one for every score from 1 to 6
ChunkKinds ==
    {[text_len |-> 1000, keyword |-> TRUE, structured |-> TRUE],
     [text_len |-> 1000, keyword |-> TRUE, structured |-> FALSE],
     [text_len |-> 2500, keyword |-> TRUE, structured |-> FALSE],
     [text_len |-> 1000, keyword |-> FALSE, structured |-> FALSE],
     [text_len |-> 2500, keyword |-> FALSE, structured |-> FALSE],
     [text_len |-> 100, keyword |-> FALSE, structured |-> FALSE]}

\* a document of n chunks whose kinds repeat a pattern; n is the chunk's
\* place in the document
PatternChunks(pattern, n) ==
    [i \in 1..n |->
        LET kind == pattern[((i - 1) % Len(pattern)) + 1]
        IN  [place |-> i, text_len |-> kind.text_len,
             keyword |-> kind.keyword, structured |-> kind.structured]]

\* documents of about max_chunks chunks
LongDocuments ==
    {PatternChunks(pattern, n) :
        pattern \in SeqUpTo(ChunkKinds, MaxPattern) \ {<<>>},
        n \in (max_chunks - 1)..(max_chunks + MaxExtraChunks)}

\* the vectors of the upsert, one for each pair of zip(chunks, embeddings),
\* by chunk index
ZippedVectors(chunks) ==
    [i \in 1..Len(chunks) |-> [chunk_index |-> i - 1, chunk |-> chunks[i]]]

\* store_document_chunks: the count returned and the vectors written, or
\* the exception of generate_embeddings
StoreResult(chunks, embedded) ==
    LET kept == LimitChunks(chunks)
    IN  IF ~embedded
        THEN [raised |-> TRUE, embedded |-> 0, vectors |-> <<>>, stored_count |-> 0]
        ELSE [raised |-> FALSE, embedded |-> Len(kept), vectors |-> ZippedVectors(kept),
              stored_count |-> Len(ZippedVectors(kept))]

\* store_document_chunks is called with a long document
InitSelect ==
    /\ ApiIdle
    /\ DecisionIdle
    /\ ChunkerIdle
    /\ StoreIdle
    /\ EnsureIdle
    /\ fn_pc = "call"
    /\ fn_args \in [chunks : LongDocuments, embedded : BOOLEAN]
    /\ fn_result = <<>>

StoreLongDocument ==
    /\ fn_pc = "call"
    /\ fn_result' = StoreResult(fn_args.chunks, fn_args.embedded)
    /\ fn_pc' = "returned"
    /\ UNCHANGED fn_args
    /\ UNCHANGED <<api_vars, de_vars, ck_vars, vs_vars, ei_vars>>

SpecSelect == InitSelect /\ [][StoreLongDocument]_vars

(***************************************************************************)
(* The free-text heuristic of perform_fast_analysis and                    *)
(* perform_fast_analysis_with_chunks (api/routes/hackrx.py)                *)
(***************************************************************************)
\* the negative indicators of perform_fast_analysis_with_chunks
HasNegativeIndicator(words) ==
    \/ HasPhrase(words, "not", "covered")
    \/ HasWord(words, "excluded")
    \/ HasPhrase(words, "not", "included")
    \/ HasPhrase(words, "no", "coverage")
    \/ HasPhrase(words, "not", "available")

\* perform_fast_analysis_with_chunks: the evaluation dict for the reply
PerformFastAnalysisWithChunksResult(question, chunks, reply) ==
    CASE reply.kind = "raise" -> AnalysisError
      [] reply.kind = "text" ->
            [isCovered |-> Bool(/\ \E w \in {"yes", "covered", "included", "available",
                                            "provided", "benefits"} :
                                      HasWord(reply.words, w)
                                /\ ~HasNegativeIndicator(reply.words)),
             conditions |-> List(
                 (IF HasPhrase(reply.words, "waiting", "period")
                  THEN <<"Waiting period applies">> ELSE <<>>)
                 \o (IF HasWord(reply.words, "month")
                     THEN <<"Time-based conditions apply">> ELSE <<>>)),
             rationale |-> Str("Analysis based on document content"),
             confidence_score |-> Num(80),
             clause_reference |-> Obj([page |-> Num(1), clause_title |-> Str("Document")])]
      [] reply.kind = "json" ->
            IF reply.value.t = "obj" THEN WithDefaults(reply.value.v) ELSE AnalysisError

\* the words of the free-text replies, lower-cased
ReplyWords ==
    {"not", "no", "covered", "uncovered", "included", "excluded", "coverage",
     "yes", "available", "the"}

\* replies that are no JSON
FreeTextReplies == {Text(ws) : ws \in SeqUpTo(ReplyWords, MaxReplyWords)}

\* one of the two analyses gets a free-text reply
InitHeuristic ==
    /\ ApiIdle
    /\ DecisionIdle
    /\ ChunkerIdle
    /\ StoreIdle
    /\ EnsureIdle
    /\ fn_pc = "call"
    /\ fn_args \in [function : {"perform_fast_analysis", "perform_fast_analysis_with_chunks"},
                    reply : FreeTextReplies]
    /\ fn_result = <<>>

FastAnalysisCall ==
    /\ fn_pc = "call"
    /\ fn_result' = IF fn_args.function = "perform_fast_analysis"
                    THEN PerformFastAnalysisResult("knee", <<1>>, fn_args.reply)
                    ELSE PerformFastAnalysisWithChunksResult("knee", <<1>>, fn_args.reply)
    /\ fn_pc' = "returned"
    /\ UNCHANGED fn_args
    /\ UNCHANGED <<api_vars, de_vars, ck_vars, vs_vars, ei_vars>>

SpecHeuristic == InitHeuristic /\ [][FastAnalysisCall]_vars

(***************************************************************************)
(* The document id of process_queries in several server processes          *)
(* (api/routes/hackrx.py)                                                  *)
(***************************************************************************)
\* the seeds of str hashing a server process can start with
HashSeeds == {"seed1", "seed2"}

\* hash(url) in a process: a function of the string and of the seed
StrHash(seed, url) == <<seed, url>>

\* f"doc_{hash(request.documents)}" in a process with that seed
ProcessDocumentId(seed, url) == <<"doc_">> \o StrHash(seed, url)

\* the contents _generate_vector_id hashes for these ids
ProcessContents ==
    {Content(ProcessDocumentId(s, u), i) :
        s \in HashSeeds, u \in StoreUrls, i \in 0..(MaxStored - 1)}

\* two requests for one unchanged document, each handled by a process
InitProcesses ==
    /\ ApiIdle
    /\ DecisionIdle
    /\ ChunkerIdle
    /\ EnsureIdle
    /\ md5 \in [ProcessContents -> Hexdigests]
    /\ store_calls = <<>>
    /\ fn_pc = "request"
    /\ fn_args \in [url : StoreUrls,
                    seeds : [1..2 -> HashSeeds],
                    chunks : {ChunksOfVersion("v1", n) : n \in 1..MaxStored}]
    /\ fn_result = <<>>

\* Step 2 of process_queries: the document id, and the store
StoreRequest ==
    /\ fn_pc = "request"
    /\ LET document_id == ProcessDocumentId(fn_args.seeds[Len(store_calls) + 1], fn_args.url)
           kept == LimitChunks(fn_args.chunks)
       IN  /\ index' = Upsert(index, PreparedVectors(document_id, kept))
           /\ store_calls' = Append(store_calls,
                   [document_id |-> document_id,
                    chunks |-> kept,
                    ids |-> [i \in 1..Len(kept) |-> GenerateVectorId(document_id, i - 1)]])
           /\ fn_result' = Append(fn_result, Cardinality(index'))
    /\ fn_pc' = IF Len(store_calls) = 0 THEN "request" ELSE "done"
    /\ UNCHANGED <<fn_args, md5>>
    /\ UNCHANGED <<request_vars, de_vars, ck_vars, ei_vars>>

SpecProcesses == InitProcesses /\ [][StoreRequest]_vars

(***************************************************************************)
(* rerank_chunks as a function of the chunks and the client's reply        *)
(***************************************************************************)

\* rerank_chunks is called
InitRerank ==
    /\ ApiIdle
    /\ DecisionIdle
    /\ ChunkerIdle
    /\ StoreIdle
    /\ EnsureIdle
    /\ fn_pc = "call"
    /\ fn_args \in [chunks : {RetrieveResult(n) : n \in 0..MaxCandidates},
                    reply : RerankCallReplies]
    /\ fn_result = <<>>

RerankCall ==
    /\ fn_pc = "call"
    /\ fn_result' = RerankChunksResult(fn_args.chunks, fn_args.reply)
    /\ fn_pc' = "returned"
    /\ UNCHANGED fn_args
    /\ UNCHANGED <<api_vars, de_vars, ck_vars, vs_vars, ei_vars>>

SpecRerank == InitRerank /\ [][RerankCall]_vars

(***************************************************************************)
(* Specifications of the request handler                                   *)
(***************************************************************************)
\* what the services can do to a request
AnyInit == {TRUE, FALSE}
AnyDocument == (-1)..MaxChunks
AnyStore == {TRUE, FALSE}
AnyRetrieval == (-1)..max_retrieval_results

\* the question at position i of a request
QuestionAt(i) == IF i % 2 = 1 THEN "knee" ELSE "maternity"

\* request bodies: up to MaxQuestions proper questions, and bodies with a
\* blank or an overlong question in one place
Requests ==
    LET proper == {[i \in 1..n |-> QuestionAt(i)] : n \in 0..MaxQuestions}
    IN  proper \cup {[qs EXCEPT ![i] = bad] :
                        qs \in proper \ {<<>>}, i \in 1..MaxQuestions, bad \in {" ", "LONG"}}

Init ==
    /\ Received(Requests, {QuestionLimit})
    /\ DecisionIdle
    /\ ChunkerIdle
    /\ StoreIdle
    /\ EnsureIdle
    /\ FunctionIdle

Next ==
    \/ ValidateRequest
    \/ InitServices(AnyInit)
    \/ ProcessDocument(AnyDocument)
    \/ StoreDocument(AnyStore)
    \/ AnalyzeQuery
    \/ RetrieveRelevantChunks(AnyRetrieval)
    \/ RerankChunks
    \/ FallbackAnalysis
    \/ PerformFastAnalysis(FastReplies)
    \/ Respond

Spec == Init /\ [][Next]_vars

\* requests of any length up to MaxRequestQuestions under two configured
\* limits, served by healthy services: a one-chunk document, one match per
\* question and a well-formed analysis
ConfiguredLimits == {5, QuestionLimit, MaxRequestQuestions}

RequestShapes ==
    {[i \in 1..n |-> "knee"] : n \in 0..MaxRequestQuestions}
    \cup {<<"knee", " ">>, <<"LONG">>}

HealthyReplies ==
    {Json(Obj([isCovered |-> Bool(TRUE),
               conditions |-> List(<<"24-month waiting period">>),
               rationale |-> Str("Covered after the waiting period"),
               confidence_score |-> Num(90),
               clause_reference |-> Obj([page |-> Num(1),
                                         clause_title |-> Str("Surgical procedures")])]))}

InitValidate ==
    /\ Received(RequestShapes, ConfiguredLimits)
    /\ DecisionIdle
    /\ ChunkerIdle
    /\ StoreIdle
    /\ EnsureIdle
    /\ FunctionIdle

NextValidate ==
    \/ ValidateRequest
    \/ InitServices({TRUE})
    \/ ProcessDocument({1})
    \/ StoreDocument({TRUE})
    \/ AnalyzeQuery
    \/ RetrieveRelevantChunks({1})
    \/ PerformFastAnalysis(HealthyReplies)
    \/ Respond

SpecValidate == InitValidate /\ [][NextValidate]_vars

\* the confidence values a reply to the fast-analysis prompt can carry:
\* below, at the ends of, inside and above the range, a string that is no
\* number, and null
ConfidenceValues ==
    {Num(0 - 10), Num(0), Num(90), Num(Scale), Num(Scale + 1), Num(150), Str("high"), Null}

\* a reply to the fast-analysis prompt with confidence_score c
ReplyWithConfidence(c) ==
    Json(Obj([isCovered |-> Bool(TRUE),
              rationale |-> Str("Covered"),
              confidence_score |-> c]))

ConfidenceReplies ==
    {ReplyWithConfidence(c) : c \in ConfidenceValues}
    \cup {Json(Obj([isCovered |-> Bool(TRUE), rationale |-> Str("Covered")])),
          Text(<<"yes">>),
          Raises}

\* requests served by a healthy document store, with any confidence in the
\* analysis replies
NextConfidence ==
    \/ ValidateRequest
    \/ InitServices({TRUE})
    \/ ProcessDocument({1, MaxChunks})
    \/ StoreDocument({TRUE})
    \/ AnalyzeQuery
    \/ RetrieveRelevantChunks({0, 1, rerank_top_k + 1})
    \/ RerankChunks
    \/ FallbackAnalysis
    \/ PerformFastAnalysis(ConfidenceReplies)
    \/ Respond

SpecConfidence == Init /\ [][NextConfidence]_vars

(***************************************************************************)
(* Properties of the request handler                                       *)
(***************************************************************************)
Happened(e) == \E k \in 1..Len(events) : events[k] = e
EventIndex(e) == CHOOSE k \in 1..Len(events) : events[k] = e
Follows(a, b) == Happened(a) /\ Happened(b) /\ EventIndex(a) < EventIndex(b)

\* the answer is the placeholder of a failed question
IsPlaceholder(a) ==
    /\ a.clause_reference.clause_title.t = "str"
    /\ a.clause_reference.clause_title.v = "Error"

\* the chunks process_single_question analyses for the given service replies
ChunksFor(inp) ==
    LET r == RetrieveResult(inp.retrieved)
    IN  IF Len(r) > rerank_top_k THEN RerankResult(r, inp.rerank) ELSE r

\* the answer the replies to question i alone determine
AnswerFor(i) ==
    BuildAnswer(questions[i],
                PerformFastAnalysisResult(questions[i], ChunksFor(inputs[i]),
                                          inputs[i].analysis),
                ChunksFor(inputs[i]))

\* C1: once the document is processed and stored, the loop has one answer
\* for each question it has passed, in the order of the questions, and the
\* request ends with HTTP 200 carrying exactly one answer per question in
\* input order, whatever happened to the single questions.
C1_OneAnswerPerQuestion ==
    qi >= 1 =>
        /\ Len(answers) = qi - 1
        /\ \A i \in 1..Len(answers) : answers[i].question = questions[i]
        /\ pc = "responded" =>
            /\ response.status = 200
            /\ Len(response.answers) = Len(questions)
            /\ \A i \in 1..Len(questions) :
                   response.answers[i].question = questions[i]
            /\ response.processing_summary.total_questions = Len(questions)

\* a two-question request answered with one placeholder and one regular
\* answer
C1_Witness ==
    /\ pc = "responded"
    /\ response.status = 200
    /\ Len(questions) = 2
    /\ questions[1] # questions[2]
    /\ IsPlaceholder(response.answers[1])
    /\ ~IsPlaceholder(response.answers[2])

\* C2: the answer of a question that raised is the placeholder (isCovered
\* false, confidence 0.0, the error message in the rationale), and the
\* answer of every question that did not raise is the one its own replies
\* determine, whatever happened to the other questions.
C2_FailureIsolatedPerQuestion ==
    \A i \in 1..Len(answers) :
        /\ Happened(<<"error", i>>) =>
              /\ answers[i].isCovered = FALSE
              /\ answers[i].confidence_score = 0
              /\ answers[i].rationale[1] = "Failed to process question due to error: "
              /\ Len(answers[i].rationale) = 2
              /\ answers[i].question = questions[i]
        /\ ~Happened(<<"error", i>>) =>
              /\ ~AnswerFor(i).raised
              /\ answers[i] = AnswerFor(i).value

\* the first question raised while its answer was built, the second was
\* answered as covered
C2_Witness ==
    /\ Len(answers) = 2
    /\ Happened(<<"fast_analysis", 1>>)
    /\ Happened(<<"error", 1>>)
    /\ IsPlaceholder(answers[1])
    /\ Happened(<<"answer", 2>>)
    /\ answers[2].isCovered = TRUE
    /\ answers[2].confidence_score = 90

\* C3: a question whose retrieval yields an empty list is analysed against
\* the original document chunks and gets a regular answer, not the
\* placeholder of a failed question.
C3_EmptyRetrievalFallsBack ==
    \A i \in 1..Len(answers) :
        inputs[i].retrieved <= 0 => ~IsPlaceholder(answers[i])

C5_EmptyDocumentRejected ==
    document_chunks = 0 =>
        /\ pc = "responded"
        /\ response.status = 400
        /\ index = {}
        /\ qi = 0
        /\ events = <<>>
        /\ answers = <<>>
        /\ client_calls = 0

\* a valid request whose document was downloaded and gave no chunk
C5_Witness ==
    /\ document_chunks = 0
    /\ downloads = 1
    /\ Len(questions) = 2
    /\ response.status = 400

\* C6: a request with more questions than max_questions_per_request is
\* rejected at validation, before any download, vector write or client
\* call, and a request of 1 to max_questions_per_request valid questions
\* is not rejected.
C6_RejectedAboveConfiguredMax ==
    pc # "validate" =>
        /\ Len(questions) > max_questions_per_request =>
              /\ response.status = 422
              /\ downloads = 0
              /\ index = {}
              /\ client_calls = 0
        /\ (/\ Len(questions) >= 1
            /\ Len(questions) <= max_questions_per_request
            /\ \A i \in 1..Len(questions) :
                   Strip(questions[i]) # "" /\ QuestionLen(questions[i]) <= QuestionMaxLen)
           => response.status # 422

(***************************************************************************)
(* Properties of DecisionEngine (checked under SpecDecision)               *)
(***************************************************************************)
\* the run of analyze_complex_query is over
DecisionEnded == de_pc \in {"done", "raised"}

\* the fallback synthesis is the synthesized result
FallbackUsed == de_pc \in {"validate", "done"} /\ "synthesize" \in de_failed

\* the keys of the documented fallback structure
FallbackKeys ==
    {"isCovered", "conditions", "limitations", "clause_reference", "rationale",
     "confidence_score", "evidence_strength", "completeness", "contradictions", "gaps"}

\* the generate_content calls of a complete run, in order
FullCallOrder ==
    <<<<"decompose", de_query>>>>
    \o [i \in 1..Len(sub_questions) |-> <<"analyze", sub_questions[i]>>]
    \o <<<<"synthesize", de_query>>, <<"validate", de_query>>>>

\* C7: whatever stages get a non-JSON reply or an exception from the client
\* (the other replies being JSON of the type asked for), the run does not
\* raise, every stage still makes its call, and the result is a dict with a
\* validation annotation; when the synthesis is among the failed stages the
\* result has every key of the fallback structure, isCovered a boolean and
\* confidence_score a number.
C7_StageFailuresIsolated ==
    ~de_illtyped =>
        /\ de_pc # "raised"
        /\ de_pc = "done" =>
            /\ de_calls = FullCallOrder
            /\ de_result.t = "obj"
            /\ "validation" \in DOMAIN de_result.v
            /\ "synthesize" \in de_failed =>
                /\ FallbackKeys \subseteq DOMAIN de_result.v
                /\ de_result.v["isCovered"].t = "bool"
                /\ de_result.v["confidence_score"].t = "num"

\* C7 witness: a run in which all four stages failed has returned
C7_Witness ==
    /\ de_pc = "done"
    /\ ~de_illtyped
    /\ de_failed = {"decompose", "analyze", "synthesize", "validate"}

\* C8: a run that is over has made exactly the calls decompose, analyze
\* for each sub-question in order, synthesize, validate (n + 3 calls).
C8_FixedCallOrder ==
    DecisionEnded => de_calls = FullCallOrder

\* the confidence of analysis a, 0 when it has none
ConfidenceOf(a) == Get(a.v, "confidence", Num(0)).v

\* mean of the confidence values of all sub-analyses (0 for none)
MeanOfAll(analyses) ==
    IF analyses = <<>> THEN 0
    ELSE SumSeq([i \in 1..Len(analyses) |-> ConfidenceOf(analyses[i])]) \div Len(analyses)

C10_FallbackAggregation ==
    (de_pc = "validate" /\ "synthesize" \in de_failed) =>
        /\ final_analysis.v["isCovered"].v =
              (\E i \in 1..Len(sub_analyses) :
                  Get(sub_analyses[i].v, "is_addressed", Bool(FALSE)).v)
        /\ final_analysis.v["limitations"].v = ExtendAll(sub_analyses, "limitations")
        /\ "evidence" \in DOMAIN final_analysis.v
        /\ final_analysis.v["evidence"].v = ExtendAll(sub_analyses, "evidence")

\* C11: when the validation call raised or gave unparseable output, the
\* result is the synthesized result with every field unchanged plus one
\* validation annotation, and the annotation marks the result as not
\* consistently validated.
C11_FailedValidationMarked ==
    (de_pc = "done" /\ "validate" \in de_failed) =>
        /\ DOMAIN de_result.v = DOMAIN final_analysis.v \cup {"validation"}
        /\ \A k \in DOMAIN final_analysis.v : de_result.v[k] = final_analysis.v[k]
        /\ de_result.v["validation"].v["is_consistent"] = Bool(FALSE)

(***************************************************************************)
(* Properties of the answers                                               *)
(***************************************************************************)
\* the reply carries a confidence_score the QueryAnswer model refuses
ConfidenceRejected(reply) ==
    /\ reply.kind = "json"
    /\ reply.value.t = "obj"
    /\ "confidence_score" \in DOMAIN reply.value.v
    /\ LET c == reply.value.v["confidence_score"]
       IN  c.t # "num" \/ c.v < 0 \/ c.v > Scale

\* C12: every answer, in the loop and in the response, has a confidence
\* between 0.0 and 1.0; a question whose reply carried an out-of-range or
\* non-numeric confidence is answered with the placeholder of confidence 0.0.
C12_ConfidenceInRange ==
    /\ \A i \in 1..Len(answers) :
        /\ 0 <= answers[i].confidence_score
        /\ answers[i].confidence_score <= Scale
        /\ ConfidenceRejected(inputs[i].analysis) =>
              IsPlaceholder(answers[i]) /\ answers[i].confidence_score = 0
    /\ response.status = 200 => response.answers = answers

\* a response whose first question got a confidence of 1.5 and whose second
\* got 1.0
C12_Witness ==
    /\ response.status = 200
    /\ Len(answers) = 2
    /\ inputs[1].analysis = ReplyWithConfidence(Num(150))
    /\ IsPlaceholder(response.answers[1])
    /\ inputs[2].analysis = ReplyWithConfidence(Num(Scale))
    /\ response.answers[2].confidence_score = Scale

(***************************************************************************)
(* Properties of _split_text_into_chunks                                   *)
(***************************************************************************)
\* the length of the paragraphs of t joined by the paragraph separator
RECURSIVE JoinedLength(_)
JoinedLength(ps) ==
    IF ps = <<>> THEN 0
    ELSE IF Len(ps) = 1 THEN StrLen(ps[1])
    ELSE StrLen(ps[1]) + StrLen(ParagraphBreak) + JoinedLength(Tail(ps))

\* C13: a text of at least min_chunk_size characters after stripping gives
\* at least one chunk, every chunk has at least min_chunk_size characters,
\* and an empty or whitespace-only text gives no chunk.
C13_ChunkPerMeaningfulText ==
    ck_pc = "returned" =>
        /\ StrLen(ck_text) >= min_chunk_size => Len(ck_chunks) >= 1
        /\ \A i \in 1..Len(ck_chunks) : StrLen(ck_chunks[i].text) >= min_chunk_size
        /\ ck_text = <<>> => ck_chunks = <<>>

C15_ChunksSizeBounded ==
    \A i \in 1..Len(ck_chunks) : StrLen(ck_chunks[i].text) <= optimal_chunk_size

\* C16: every chunk has text that is not empty and a chunk_size equal to
\* the length of its text.
C16_ChunkSizeIsTextLength ==
    \A i \in 1..Len(ck_chunks) :
        /\ ck_chunks[i].text # <<>>
        /\ ck_chunks[i].metadata.chunk_size = StrLen(ck_chunks[i].text)

(***************************************************************************)
(* Properties of RetrievalEngine                                           *)
(***************************************************************************)
\* C17: the hybrid results are the vector results, each exactly once, in
\* order of non-increasing combined_score; combined_score is 0.7 * score +
\* 0.3 * keyword_score, keyword_score is the number of distinct query words
\* found in the text over the number of distinct query words (0 for a query
\* without words) and lies in [0, 1].
C17_HybridOrder ==
    fn_pc = "returned" =>
        LET given == fn_args.vector_results
            words == Range(Words(Lower(fn_args.query)))
        IN  /\ Len(fn_result) = Len(given)
            /\ {fn_result[i].id : i \in 1..Len(fn_result)} = 1..Len(given)
            /\ \A i \in 1..Len(fn_result) :
                LET r == fn_result[i]
                    found == Cardinality({w \in words : Contains(Lower(r.text), w)})
                IN  /\ r.score = given[r.id].score /\ r.text = given[r.id].text
                    /\ 0 <= r.keyword_score.num /\ r.keyword_score.num <= r.keyword_score.den
                    /\ words = {} => r.keyword_score.num = 0
                    /\ words # {} =>
                          r.keyword_score.num * Cardinality(words) = found * r.keyword_score.den
                    /\ 10 * Scale * r.combined_score.num * r.keyword_score.den
                          = r.combined_score.den * (7 * r.score * r.keyword_score.den
                                                    + 3 * Scale * r.keyword_score.num)
            /\ \A i \in 1..(Len(fn_result) - 1) :
                   FracGE(fn_result[i].combined_score, fn_result[i + 1].combined_score)

\* the keyword score moved a result of lower similarity in front of one of
\* higher similarity
C17_Witness ==
    /\ fn_pc = "returned"
    /\ Len(fn_result) = 3
    /\ fn_result[1].id = 3
    /\ fn_result[1].score < fn_result[2].score
    /\ fn_result[1].keyword_score = [num |-> 2, den |-> 2]
    /\ fn_result[3].keyword_score = [num |-> 1, den |-> 2]

\* the reply to the rerank prompt parsed to a ranking
ParsedRanking == fn_args.reply.kind = "json" /\ fn_args.reply.value.t = "list"

\* the candidates submitted to the client
Submitted == Take(fn_args.chunks, rerank_top_k * 2)

\* the 1-based indices of submitted candidates that the ranking omits
Omitted == {i \in 1..Len(Submitted) : i \notin Range(fn_args.reply.value.v)}

\* the number of entries of the ranking that are in range
InRangeCount ==
    Cardinality({k \in 1..Len(fn_args.reply.value.v) :
                    1 <= fn_args.reply.value.v[k]
                    /\ fn_args.reply.value.v[k] <= Len(Submitted)})

\* the places of chunk c in the result
PlacesOf(c) == {j \in 1..Len(fn_result) : fn_result[j].chunk = c}

\* C18 (as stated): after a rerank whose reply parsed, every submitted
\* candidate the ranking omits is in the result, after all ranked
\* candidates, with llm_score 0.
C18_OmittedKept ==
    (fn_pc = "returned" /\ ParsedRanking) =>
        \A i \in Omitted :
            /\ PlacesOf(Submitted[i]) # {}
            /\ \A j \in PlacesOf(Submitted[i]) :
                /\ fn_result[j].llm_score.num = 0
                /\ \A k \in 1..Len(fn_result) : fn_result[k].llm_score.num > 0 => k < j

\* C18 (amended): the reranked list is the in-range entries of the ranking
\* in ranking order, then the omitted candidates in their order with
\* llm_score 0, cut to rerank_top_k: an omitted candidate preceded by fewer
\* than rerank_top_k such entries is in the result once, at that place,
\* after every ranked candidate, and any other omitted candidate is not in
\* the result; entries out of range add nothing.
C18_OmittedKeptWithinTopK ==
    (fn_pc = "returned" /\ ParsedRanking /\ fn_args.chunks # <<>>) =>
        /\ Len(fn_result) = Min(rerank_top_k, InRangeCount + Cardinality(Omitted))
        /\ \A j \in 1..Len(fn_result) :
               (j <= InRangeCount) = (fn_result[j].llm_score.num > 0)
        /\ \A i \in Omitted :
            LET before == InRangeCount + Cardinality({h \in Omitted : h < i})
            IN  IF before < rerank_top_k
                THEN /\ PlacesOf(Submitted[i]) = {before + 1}
                     /\ fn_result[before + 1].llm_score.num = 0
                     /\ fn_result[before + 1].llm_rank = Len(fn_args.reply.value.v) + 1
                ELSE PlacesOf(Submitted[i]) = {}
        /\ \A j \in 1..Len(fn_result) : fn_result[j].chunk \in Range(Submitted)
        /\ [j \in 1..Len(fn_result) |-> fn_result[j].chunk]
               = RerankResult(fn_args.chunks, fn_args.reply)

\* five candidates, a ranking with an entry out of range and one in range:
\* the result is the ranked candidate and the first two omitted ones
C18_Witness ==
    /\ fn_pc = "returned"
    /\ fn_args.chunks = RetrieveResult(5)
    /\ fn_args.reply = Json(List(<<7, 4>>))
    /\ Len(fn_result) = 3
    /\ fn_result[1].chunk = 4 /\ fn_result[1].llm_rank = 2
    /\ fn_result[2].chunk = 1 /\ fn_result[2].llm_score.num = 0
    /\ fn_result[3].chunk = 2

\* the (document_id, chunk_index, id) triples of the calls made
IdsMade ==
    UNION {{[document_id |-> store_calls[c].document_id, chunk_index |-> i - 1,
             id |-> store_calls[c].ids[i]] : i \in 1..Len(store_calls[c].ids)} :
           c \in 1..Len(store_calls)}

\* the same arguments gave the same id on every call
SameInputsSameId ==
    \A a, b \in IdsMade :
        (a.document_id = b.document_id /\ a.chunk_index = b.chunk_index) => a.id = b.id

\* the ids of one store_document_chunks call are pairwise distinct
DistinctWithinCall ==
    \A c \in 1..Len(store_calls) :
        \A i, j \in 1..Len(store_calls[c].ids) :
            i # j => store_calls[c].ids[i] # store_calls[c].ids[j]

C20_StoredVectorNeverMutated ==
    [][/\ \A v \in index : v \in index'
       /\ \A d \in DocumentIds : StoredFor(index, d) \subseteq StoredFor(index', d)]_vars

C22_EnsureIndexIdempotent ==
    \A p \in Initializers :
        /\ (initializers[p].pc \in {"connect", "connected"}
            /\ index_name \in initializers[p].index_names)
               => (initializers[p].attempt = 0 /\ ~initializers[p].index_created)
        /\ initializers[p].already_exists => initializers[p].pc # "raised"

\* the first part of C22 alone
C22_ExistingIndexNotCreated ==
    \A p \in Initializers :
        (initializers[p].pc \in {"connect", "connected"}
         /\ index_name \in initializers[p].index_names)
            => (initializers[p].attempt = 0 /\ ~initializers[p].index_created)

\* C23: a document larger than max_document_size_mb is rejected with an
\* error before any extraction, whether it is downloaded or read from a
\* local file, and gives no chunks.
C23_OversizedRejected ==
    (fn_pc = "returned" /\ fn_args.size > MaxDocumentBytes) =>
        /\ fn_result.raised
        /\ ~fn_result.extracted
        /\ fn_result.chunks = 0

\* C23 for downloads alone
C23_OversizedDownloadRejected ==
    (fn_pc = "returned" /\ fn_args.scheme = "https" /\ fn_args.size > MaxDocumentBytes) =>
        /\ fn_result.raised
        /\ ~fn_result.extracted
        /\ fn_result.chunks = 0

\* the analysis at position i is the placeholder of a failed analysis call
IsFailedAnalysis(i) ==
    /\ sub_analyses[i].t = "obj"
    /\ Get(sub_analyses[i].v, "answer", Null)
           \in {Str("Unable to analyze due to parsing error"), Str("Analysis failed")}

\* C24: a sub-question whose analysis reply does not parse, or whose call
\* raises, gets a placeholder analysis marked as addressed with low
\* confidence, the run does not raise there, and the sub-questions after
\* it are still analysed.
C24_FailedSubQuestionAddressed ==
    /\ \A i \in 1..Len(sub_analyses) :
          IsFailedAnalysis(i) =>
              /\ sub_analyses[i].v.is_addressed = Bool(TRUE)
              /\ sub_analyses[i].v.confidence.v <= 30
    /\ (de_pc \notin {"decompose", "analyze"})
          => Len(sub_analyses) = Len(sub_questions)

\* C24 without the mark: the placeholder has low confidence and the
\* sub-questions after it are analysed
C24_FailedSubQuestionKept ==
    /\ \A i \in 1..Len(sub_analyses) :
          IsFailedAnalysis(i) => sub_analyses[i].v.confidence.v <= 30
    /\ (de_pc \notin {"decompose", "analyze"})
          => Len(sub_analyses) = Len(sub_questions)

\* C26: analyze_complex_query returns a result and does not raise, whatever
\* the client replies, replies that are JSON of another type than the one
\* asked for included.
C26_NeverRaises == de_pc # "raised"

\* the chunks of the vectors written
StoredChunks == {fn_result.vectors[i].chunk : i \in 1..Len(fn_result.vectors)}

\* the chunks given that were not stored
DroppedChunks == Range(fn_args.chunks) \ StoredChunks

\* C25: of more than max_chunks chunks exactly max_chunks are embedded and
\* stored, each an input chunk and none twice, and no dropped chunk has a
\* higher score than a stored one; up to max_chunks chunks are all stored;
\* the count returned is the number of vectors written.
C25_BestChunksStored ==
    (fn_pc = "returned" /\ ~fn_result.raised) =>
        LET n == Len(fn_args.chunks)
        IN  /\ Len(fn_result.vectors) = Min(n, max_chunks)
            /\ fn_result.embedded = Len(fn_result.vectors)
            /\ fn_result.stored_count = Len(fn_result.vectors)
            /\ StoredChunks \subseteq Range(fn_args.chunks)
            /\ Cardinality(StoredChunks) = Len(fn_result.vectors)
            /\ \A i \in 1..Len(fn_result.vectors) :
                  fn_result.vectors[i].chunk_index = i - 1
            /\ \A d \in DroppedChunks, s \in StoredChunks : ChunkScore(d) <= ChunkScore(s)
            /\ n <= max_chunks =>
                  \A i \in 1..n : fn_result.vectors[i].chunk = fn_args.chunks[i]

\* 52 chunks that alternate between score 1 and score 6: the 26 of score 6
\* and the first 24 of score 1 are stored, the last two chunks of score 1
\* are dropped
C25_Witness ==
    /\ fn_pc = "returned"
    /\ Len(fn_args.chunks) = max_chunks + 2
    /\ ChunkScore(fn_args.chunks[1]) = 1
    /\ ChunkScore(fn_args.chunks[2]) = 6
    /\ fn_result.stored_count = max_chunks
    /\ fn_result.vectors[1].chunk = fn_args.chunks[2]
    /\ fn_result.vectors[27].chunk = fn_args.chunks[1]
    /\ DroppedChunks = {fn_args.chunks[49], fn_args.chunks[51]}

\* the reply has one of the negative coverage phrases
NegativePhrase(words) ==
    \/ HasPhrase(words, "not", "covered")
    \/ HasPhrase(words, "not", "included")
    \/ HasWord(words, "excluded")
    \/ HasPhrase(words, "no", "coverage")

\* C29: for a reply that is no JSON and has a negative coverage phrase the
\* heuristic reports isCovered = false, in perform_fast_analysis and in
\* perform_fast_analysis_with_chunks.
C29_NegativePhraseNotCovered ==
    (fn_pc = "returned" /\ NegativePhrase(fn_args.reply.words)) =>
        fn_result.isCovered = Bool(FALSE)

\* C29 for perform_fast_analysis_with_chunks alone
C29_NegativePhraseNotCoveredWithChunks ==
    (fn_pc = "returned" /\ fn_args.function = "perform_fast_analysis_with_chunks"
     /\ NegativePhrase(fn_args.reply.words)) =>
        fn_result.isCovered = Bool(FALSE)

\* small in big, for strings with adjacent runs joined: a one-run string
\* lies within a run; a longer one ends a run, matches the runs between and
\* begins a run
ContainsStr(big, small) ==
    \/ small = <<>>
    \/ /\ Len(small) = 1
       /\ \E j \in 1..Len(big) : big[j].c = small[1].c /\ big[j].n >= small[1].n
    \/ /\ Len(small) >= 2
       /\ \E j \in 1..(Len(big) - Len(small) + 1) :
            /\ big[j].c = small[1].c /\ big[j].n >= small[1].n
            /\ \A k \in 2..(Len(small) - 1) : big[j + k - 1] = small[k]
            /\ big[j + Len(small) - 1].c = small[Len(small)].c
            /\ big[j + Len(small) - 1].n >= small[Len(small)].n

\* C27: when chunks are returned, every paragraph of the text is in full
\* in a returned chunk, and the paragraphs are met in their order along the
\* chunks.
C27_NoContentLost ==
    (ck_pc = "returned" /\ ck_chunks # <<>>) =>
        LET ps == ParagraphsOf(ck_text)
        IN  \E f \in [1..Len(ps) -> 1..Len(ck_chunks)] :
                /\ \A i \in 1..Len(ps) : ContainsStr(ck_chunks[f[i]].text, ps[i])
                /\ \A i, j \in 1..Len(ps) : i < j => f[i] <= f[j]

\* C28: rerank_chunks returns, for every reply of the client, at most
\* rerank_top_k chunks, each of them one of the chunks given and none of
\* them twice.
C28_RerankedChunksDistinct ==
    fn_pc = "returned" =>
        /\ Len(fn_result) <= rerank_top_k
        /\ \A j \in 1..Len(fn_result) : fn_result[j].chunk \in Range(fn_args.chunks)
        /\ \A i, j \in 1..Len(fn_result) : i # j => fn_result[i].chunk # fn_result[j].chunk

\* C28 without the last part
C28_RerankedChunksFromInput ==
    fn_pc = "returned" =>
        /\ Len(fn_result) <= rerank_top_k
        /\ \A j \in 1..Len(fn_result) : fn_result[j].chunk \in Range(fn_args.chunks)

\* C30: two requests with the same URL get the same document id, whether
\* one process handles both or not, so the second writes the same vector
\* ids and the index has no more vectors than after the first.
C30_DocumentIdFromUrlOnly ==
    fn_pc = "done" =>
        /\ store_calls[1].document_id = store_calls[2].document_id
        /\ store_calls[1].ids = store_calls[2].ids
        /\ fn_result[2] = fn_result[1]

\* C30 for two requests handled by one process
C30_DocumentIdFromUrlInProcess ==
    (fn_pc = "done" /\ fn_args.seeds[1] = fn_args.seeds[2]) =>
        /\ store_calls[1].document_id = store_calls[2].document_id
        /\ store_calls[1].ids = store_calls[2].ids
        /\ fn_result[2] = fn_result[1]

====
